---------------------------- MODULE Spec2Model ----------------------------
(***************************************************************************)
(* Tourist-safety anomaly detection service (backend/).                    *)
(*                                                                         *)
(* The module models                                                       *)
(*   - the rule engine            engine/rule_engine.py                    *)
(*   - the feature assembler      engine/feature_engineer.py               *)
(*   - the anomaly scorer         engine/isolation_forest.py               *)
(*   - the hybrid fusion          engine/hybrid_fusion.py                  *)
(*   - the analysis driver, the retraining task and the scheduler          *)
(*                                main.py                                  *)
(*                                                                         *)
(* Numbers.  A Python float score s in [0,1] is the integer s * 10^6       *)
(* (One = 1.0).  The grids used below are multiples of 10^-3, on which     *)
(* the products and sums of the code are exact in this representation;     *)
(* where IEEE-754 addition falls just below the decimal result             *)
(* (0.7 + 0.1 = 0.7999999999999999) the value is the decimal minus one     *)
(* unit, so that the >= comparisons of classify_severity decide as the     *)
(* code does.  Instants are milliseconds after 2026-01-01T12:00:00Z,       *)
(* risk timers are seconds, distances are millimetres.                     *)
(*                                                                         *)
(* Two specifications:                                                     *)
(*   Spec      the running service: scheduler ticks, analysis cycles,      *)
(*             retraining, model load / reload, the model file on disk;    *)
(*   SpecPipe  the pure pipeline (evaluate_rules, enrich_features,         *)
(*             predict, compute_hybrid_score) applied to inputs drawn      *)
(*             from bounded sets.                                          *)
(***************************************************************************)
EXTENDS Integers, Sequences, FiniteSets, TLC

---------------------------------------------------------------------------
(* Representation of Python values                                         *)

\* 1.0 as a fixed-point score
One == 1000000

\* JSON null / Python None where a number is expected
Null == 0 - 1

\* a value that is not a number, such as the string "abc"
NonNumeric == 0 - 2

\* the key is not in the dict
Absent == 0 - 3

IsNumber(v) == v >= 0

\* dict.get(key, default)
Get(d, key, default) == IF key \in DOMAIN d THEN d[key] ELSE default

\* no cap: the second operand whatever the first
uncapped(a, b) == b

Min(a, b) == IF a <= b THEN a ELSE b

Max(a, b) == IF a >= b THEN a ELSE b

Abs(a) == IF a >= 0 THEN a ELSE 0 - a

---------------------------------------------------------------------------
(* Timestamps: the ISO-8601 strings an event may carry.  TsRank is the     *)
(* position of the string in Python's str ordering (the sort key of        *)
(* sorted(events, key=lambda e: e.get("timestamp", ""))), TsInstant is     *)
(* datetime.fromisoformat(str(ts).replace("Z", "+00:00")).timestamp()      *)
(* in milliseconds after 12:00:00Z, or Unparseable when it raises          *)
(* ValueError.  "" is the default of an absent key; TsNone is a JSON null. *)

TsNone == "None"

Unparseable == 0 - 1

TsRank(ts) ==
    CASE ts = "" -> 0
      [] ts = "2026-01-01T12:00:00+00:00" -> 1
      [] ts = "2026-01-01T12:00:00.500Z" -> 2
      [] ts = "2026-01-01T12:00:00Z" -> 3
      [] ts = "2026-01-01T12:00:08Z" -> 4
      [] ts = "2026-01-01T12:00:10.001Z" -> 5
      [] ts = "2026-01-01T12:00:10Z" -> 6
      [] ts = "garbage" -> 9
      [] OTHER -> 10

TsInstant(ts) ==
    CASE ts = "2026-01-01T12:00:00+00:00" -> 0
      [] ts = "2026-01-01T12:00:00.500Z" -> 500
      [] ts = "2026-01-01T12:00:00Z" -> 0
      [] ts = "2026-01-01T12:00:08Z" -> 8000
      [] ts = "2026-01-01T12:00:10.001Z" -> 10001
      [] ts = "2026-01-01T12:00:10Z" -> 10000
      [] OTHER -> Unparseable

\* insert e into the sorted sequence s after every element whose key is <=
\* its own: sorted() is stable
RECURSIVE InsertByTimestamp(_, _)
InsertByTimestamp(s, e) ==
    IF s = <<>> THEN <<e>>
    ELSE IF TsRank(s[Len(s)].timestamp) <= TsRank(e.timestamp)
         THEN Append(s, e)
         ELSE Append(InsertByTimestamp(SubSeq(s, 1, Len(s) - 1), e), s[Len(s)])

RECURSIVE SortedPrefix(_, _)
SortedPrefix(events, n) ==
    IF n = 0 THEN <<>>
    ELSE InsertByTimestamp(SortedPrefix(events, n - 1), events[n])

\* sorted(events, key=lambda e: e.get("timestamp", "")): comparing None with
\* a str (or with None) raises TypeError as soon as two keys are compared
sorted_by_timestamp(events) ==
    IF Len(events) >= 2 /\ \E i \in 1..Len(events) : events[i].timestamp = TsNone
    THEN [raised |-> TRUE]
    ELSE [raised |-> FALSE, seq |-> SortedPrefix(events, Len(events))]

---------------------------------------------------------------------------
(* Rule engine: engine/rule_engine.py                                      *)

rule_classify_severity(score) ==
    IF score >= 800000 THEN "CRITICAL"
    ELSE IF score >= 600000 THEN "HIGH"
    ELSE IF score >= 300000 THEN "MEDIUM"
    ELSE "LOW"

\* RuleResult(rule_id, triggered, score = s if triggered else 0.0)
RuleResult(id, trig, s) ==
    [raised |-> FALSE, rule_id |-> id, triggered |-> trig,
     score |-> IF trig THEN s ELSE 0]

\* the evaluator raised (a comparison of None or a str with a number is a
\* TypeError)
RuleRaised(id) == [raised |-> TRUE, rule_id |-> id]

\* R1 with >= on danger_ratio
rule_r1_ratio_inclusive(features) ==
    LET timer == Get(features, "max_risk_timer", 0)
        ratio == Get(features, "danger_ratio", 0)
    IN  IF ~IsNumber(timer) THEN RuleRaised("R1")
        ELSE IF timer >= 60
             THEN IF ~IsNumber(ratio) THEN RuleRaised("R1")
                  ELSE RuleResult("R1", ratio >= 500000, 800000)
             ELSE RuleResult("R1", FALSE, 800000)

rule_r1_sustained_danger(features) ==
    LET timer == Get(features, "max_risk_timer", 0)
        ratio == Get(features, "danger_ratio", 0)
    IN  IF ~IsNumber(timer) THEN RuleRaised("R1")
        ELSE IF timer >= 60
             THEN IF ~IsNumber(ratio) THEN RuleRaised("R1")
                  ELSE RuleResult("R1", ratio > 500000, 800000)
             ELSE RuleResult("R1", FALSE, 800000)

rule_r2_panic(features) ==
    LET panic == Get(features, "panic_count", 0)
    IN  IF ~IsNumber(panic) THEN RuleRaised("R2")
        ELSE RuleResult("R2", panic > 0, One)

RECURSIVE rapid_scan(_, _, _, _)
rapid_scan(sorted, i, safe_ts, threshold_ms) ==
    IF i > Len(sorted) THEN FALSE
    ELSE LET zone == sorted[i].zone_state
             ts == TsInstant(sorted[i].timestamp)
         IN  IF ts = Unparseable
             THEN rapid_scan(sorted, i + 1, safe_ts, threshold_ms)
             ELSE IF zone = "SAFE"
             THEN rapid_scan(sorted, i + 1, ts, threshold_ms)
             ELSE IF zone = "IN_DANGER" /\ safe_ts # Unparseable
                     /\ ts - safe_ts <= threshold_ms
             THEN TRUE
             ELSE rapid_scan(sorted, i + 1, safe_ts, threshold_ms)

\* [raised, value]: the sort is outside the try of the loop body
has_rapid_transition(events, threshold_seconds) ==
    LET s == sorted_by_timestamp(events)
    IN  IF s.raised THEN [raised |-> TRUE]
        ELSE [raised |-> FALSE,
              value |-> rapid_scan(s.seq, 1, Unparseable, threshold_seconds * 1000)]

rule_r3_rapid_transition(features, events) ==
    LET t == has_rapid_transition(events, 10)
    IN  IF t.raised THEN RuleRaised("R3")
        ELSE RuleResult("R3", t.value, 700000)

rule_r4_erratic_movement(features) ==
    LET n == Get(features, "zone_transitions", 0)
    IN  IF ~IsNumber(n) THEN RuleRaised("R4")
        ELSE RuleResult("R4", n >= 3, 600000)

rule_r5_extended_danger(features) ==
    LET timer == Get(features, "max_risk_timer", 0)
    IN  IF ~IsNumber(timer) THEN RuleRaised("R5")
        ELSE RuleResult("R5", timer >= 120, 900000)

rule_r6_danger_no_exit(features, events) ==
    LET latest_zone == Get(features, "latest_zone_state", "")
        risk_timer == Get(features, "max_risk_timer", 0)
        has_exit == \E i \in 1..Len(events) : events[i].event_type = "ZONE_EXIT"
    IN  IF latest_zone # "IN_DANGER" THEN RuleResult("R6", FALSE, 750000)
        ELSE IF ~IsNumber(risk_timer) THEN RuleRaised("R6")
        ELSE RuleResult("R6", risk_timer >= 30 /\ ~has_exit, 750000)

ALL_RULES == <<"R1", "R2", "R3", "R4", "R5", "R6">>

\* one iteration of the loop body's call: rule_fn(features[, events])
call_rule(rule_fn, features, events) ==
    CASE rule_fn = "R1" -> rule_r1_sustained_danger(features)
      [] rule_fn = "R2" -> rule_r2_panic(features)
      [] rule_fn = "R3" -> rule_r3_rapid_transition(features, events)
      [] rule_fn = "R4" -> rule_r4_erratic_movement(features)
      [] rule_fn = "R5" -> rule_r5_extended_danger(features)
      [] rule_fn = "R6" -> rule_r6_danger_no_exit(features, events)

\* the loop inside one try: the first exception ends it
RECURSIVE run_rules_one_try(_, _, _, _)
run_rules_one_try(k, features, events, results) ==
    IF k > Len(ALL_RULES) THEN results
    ELSE LET r == call_rule(ALL_RULES[k], features, events)
         IN  IF r.raised THEN results
             ELSE run_rules_one_try(k + 1, features, events,
                                    Append(results, [rule_id |-> r.rule_id,
                                                     triggered |-> r.triggered,
                                                     score |-> r.score]))

\* for rule_fn in ALL_RULES: try: results.append(rule_fn(...)) except: log
RECURSIVE run_rules(_, _, _, _)
run_rules(k, features, events, results) ==
    IF k > Len(ALL_RULES) THEN results
    ELSE LET r == call_rule(ALL_RULES[k], features, events)
         IN  run_rules(k + 1, features, events,
                       IF r.raised THEN results
                       ELSE Append(results, [rule_id |-> r.rule_id,
                                             triggered |-> r.triggered,
                                             score |-> r.score]))

\* the score of the first triggered rule, not the largest
first_score(rs) == IF rs = <<>> THEN 0 ELSE rs[1].score

RECURSIVE max_score(_)
max_score(rs) ==
    IF rs = <<>> THEN 0 ELSE Max(rs[1].score, max_score(Tail(rs)))

\* score + 0.1 * (n - 1) in IEEE-754 doubles: exact on the rule scores but
\* for 0.7 + 0.1 = 0.7999999999999999 and 0.7 + 0.2 = 0.8999999999999999
float_boost(score, n) ==
    IF score = 700000 /\ n \in {2, 3}
    THEN score + 100000 * (n - 1) - 1
    ELSE score + 100000 * (n - 1)

rule_ids(rs) == [i \in 1..Len(rs) |-> rs[i].rule_id]

is_triggered(r) == r.triggered

evaluate_rules(features, events) ==
    LET results == run_rules(1, features, events, <<>>)
        triggered == SelectSeq(results, is_triggered)
    IN  IF triggered = <<>>
        THEN [rule_score |-> 0, triggered_rules |-> <<>>,
              details |-> results, severity |-> "LOW"]
        ELSE LET top == max_score(triggered)
                 score == IF Len(triggered) >= 2
                          THEN Min(One, float_boost(top, Len(triggered)))
                          ELSE top
             IN  [rule_score |-> score, triggered_rules |-> rule_ids(triggered),
                  details |-> results, severity |-> rule_classify_severity(score)]

---------------------------------------------------------------------------
(* Feature assembler: engine/feature_engineer.py                           *)

FEATURE_COLUMNS ==
    <<"event_count", "unique_zones", "danger_ratio", "caution_ratio",
      "panic_count", "zone_transitions", "max_risk_timer", "avg_risk_timer",
      "lat_std", "lng_std", "distance_traveled", "speed_estimate">>

\* float("inf"): math.sin(inf) raises ValueError
NonFinite == 0 - 4

\* millimetres per 0.001 degree of latitude: R * pi / 180 * 0.001, R = 6 371 000 m
MmPerMilliDeg == 111195

\* Great-circle distance for two points of one meridian (lng1 = lng2), the
\* latitudes in 0.001 degree: R * |dphi|.  [raised, value]: TypeError for
\* None or a str operand, ValueError for a non-finite one.
haversine_meters(lat1, lng1, lat2, lng2) ==
    IF \E x \in {lat1, lng1, lat2, lng2} : x \in {Null, NonNumeric}
    THEN [raised |-> "TypeError"]
    ELSE IF \E x \in {lat1, lng1, lat2, lng2} : x = NonFinite
    THEN [raised |-> "ValueError"]
    ELSE [raised |-> "", value |-> MmPerMilliDeg * (Abs(lat2 - lat1) + Abs(lng2 - lng1))]

\* the loop of compute_distance_traveled from pair i on: KeyError (a
\* coordinate key is absent) and TypeError skip the pair, any other
\* exception propagates
RECURSIVE distance_from(_, _, _)
distance_from(sorted_events, i, total) ==
    IF i > Len(sorted_events) THEN [raised |-> FALSE, value |-> total]
    ELSE LET prev == sorted_events[i - 1]
             curr == sorted_events[i]
             h == haversine_meters(prev.latitude, prev.longitude,
                                   curr.latitude, curr.longitude)
             KeyError == \E x \in {prev.latitude, prev.longitude,
                                   curr.latitude, curr.longitude} : x = Absent
         IN  IF KeyError \/ h.raised = "TypeError"
             THEN distance_from(sorted_events, i + 1, total)
             ELSE IF h.raised = "ValueError" THEN [raised |-> TRUE]
             ELSE distance_from(sorted_events, i + 1, total + h.value)

compute_distance_traveled(events) ==
    LET s == sorted_by_timestamp(events)
    IN  IF s.raised THEN [raised |-> TRUE]
        ELSE distance_from(s.seq, 2, 0)

\* float(agg_row.get(col, 0) or 0): None and 0 become 0.0, a non-numeric
\* string raises ValueError
float_or_zero(agg_row, col) ==
    LET v == Get(agg_row, col, 0)
    IN  IF v = Null THEN 0 ELSE v

\* window_seconds: float = 120.0
default_window_seconds == 120

\* [raised, features]; speed_estimate is in micrometres per second
enrich_features(agg_row, raw_events, window_seconds) ==
    LET d == compute_distance_traveled(raw_events)
    IN  IF d.raised THEN [raised |-> TRUE]
        ELSE IF \E i \in 1..10 : Get(agg_row, FEATURE_COLUMNS[i], 0) = NonNumeric
        THEN [raised |-> TRUE]
        ELSE [raised |-> FALSE,
              features |->
                [col \in {FEATURE_COLUMNS[i] : i \in 1..Len(FEATURE_COLUMNS)} |->
                    IF col = "distance_traveled" THEN d.value
                    ELSE IF col = "speed_estimate"
                    THEN IF window_seconds > 0
                         THEN (d.value * 1000) \div window_seconds ELSE 0
                    ELSE float_or_zero(agg_row, col)]]

---------------------------------------------------------------------------
(* Anomaly scorer: engine/isolation_forest.py                              *)

\* self.model = None
NoModel == "None"

\* the scorer's fields after __init__ and before its load_model call
Unloaded ==
    [model |-> NoModel, threshold |-> 0, feature_columns |-> FEATURE_COLUMNS,
     model_version |-> "none", training_samples |-> 0]

\* decision_function outputs (in 0.001) the estimator may return
RawScores == {0 - 10000, 0 - 200, 0, 200, 10000}

\* clip(1 / (1 + exp(5 * raw)), 0, 1), to three decimals
sigmoid_normalise(raw) ==
    CASE raw = 0 - 10000 -> One
      [] raw = 0 - 400 -> 881000
      [] raw = 0 - 200 -> 731000
      [] raw = 0 -> 500000
      [] raw = 200 -> 269000
      [] raw = 400 -> 119000
      [] raw = 10000 -> 0

\* a predict without the guard on self.model
predict_unguarded(d, features, raw) == sigmoid_normalise(raw)

\* raw is what self.model.decision_function(X)[0] returns for the row
\* X = [features.get(col, 0.0) for col in self.feature_columns]
predict(d, features, raw) ==
    IF d.model = NoModel THEN 0 ELSE sigmoid_normalise(raw)

\* raws is decision_function(feature_matrix), one entry per row
predict_batch(d, raws) ==
    IF d.model = NoModel THEN [i \in 1..Len(raws) |-> 0]
    ELSE [i \in 1..Len(raws) |-> sigmoid_normalise(raws[i])]

---------------------------------------------------------------------------
(* Hybrid fusion: engine/hybrid_fusion.py                                  *)

\* the labels in alphabetical order, not in order of severity
SEVERITY_LEVELS_alphabetical == <<"CRITICAL", "HIGH", "LOW", "MEDIUM">>

SEVERITY_LEVELS == <<"LOW", "MEDIUM", "HIGH", "CRITICAL">>

\* lower bounds that must be exceeded, not met
classify_severity_exclusive(score) ==
    IF score > 800000 THEN "CRITICAL"
    ELSE IF score > 600000 THEN "HIGH"
    ELSE IF score > 300000 THEN "MEDIUM"
    ELSE "LOW"

fusion_classify_severity(score) ==
    IF score >= 800000 THEN "CRITICAL"
    ELSE IF score >= 600000 THEN "HIGH"
    ELSE IF score >= 300000 THEN "MEDIUM"
    ELSE "LOW"

\* SEVERITY_LEVELS.index(label), from 0
severity_index(label) == (CHOOSE i \in 1..Len(SEVERITY_LEVELS) : SEVERITY_LEVELS[i] = label) - 1

\* a threshold that must be exceeded, not met
severity_exceeds_threshold(severity, threshold) ==
    severity_index(severity) > severity_index(threshold)

severity_meets_threshold(severity, threshold) ==
    severity_index(severity) >= severity_index(threshold)

\* a table whose ML_ONLY row begins above 0.5
concordance_ml_only_above_half(rule_score, anomaly_score) ==
    IF rule_score > 500000 /\ anomaly_score > 500000 THEN "AGREE_HIGH"
    ELSE IF rule_score < 200000 /\ anomaly_score < 300000 THEN "AGREE_LOW"
    ELSE IF rule_score > 500000 /\ anomaly_score < 300000 THEN "RULE_ONLY"
    ELSE IF rule_score < 200000 /\ anomaly_score > 500000 THEN "ML_ONLY"
    ELSE "CONFLICT"

\* the table without its ML_ONLY row
concordance_without_ml_only(rule_score, anomaly_score) ==
    IF rule_score > 500000 /\ anomaly_score > 500000 THEN "AGREE_HIGH"
    ELSE IF rule_score < 200000 /\ anomaly_score < 300000 THEN "AGREE_LOW"
    ELSE IF rule_score > 500000 /\ anomaly_score < 300000 THEN "RULE_ONLY"
    ELSE "CONFLICT"

determine_concordance(rule_score, anomaly_score) ==
    IF rule_score > 500000 /\ anomaly_score > 500000 THEN "AGREE_HIGH"
    ELSE IF rule_score < 200000 /\ anomaly_score < 300000 THEN "AGREE_LOW"
    ELSE IF rule_score > 500000 /\ anomaly_score < 300000 THEN "RULE_ONLY"
    ELSE IF rule_score < 200000 /\ anomaly_score > 700000 THEN "ML_ONLY"
    ELSE "CONFLICT"

\* <<rule_weight, ml_weight, rule_score, anomaly_score>> (weights in 0.001)
\* for which the hybrid score, 0.8 in decimals, is 0.7999999999999999 in
\* IEEE-754 doubles: among the scores that are multiples of 0.01, with the
\* default weights (after the AGREE_HIGH bonus) and with weights 0.9, 0.8
Ieee754Below ==
    { <<600, 400, 520000, 970000>>, <<600, 400, 540000, 940000>>,
      <<600, 400, 580000, 880000>>, <<600, 400, 600000, 850000>>,
      <<600, 400, 620000, 820000>>, <<600, 400, 680000, 730000>>,
      <<600, 400, 700000, 700000>>, <<600, 400, 720000, 670000>>,
      <<600, 400, 740000, 640000>>, <<600, 400, 760000, 610000>>,
      <<600, 400, 780000, 580000>>, <<600, 400, 800000, 550000>>,
      <<600, 400, 820000, 520000>>, <<900, 800, 240000, 730000>> }

\* the double the code computes, relative to the decimal value h
ieee754(h, rule_score, anomaly_score, rule_weight, ml_weight) ==
    IF <<rule_weight, ml_weight, rule_score, anomaly_score>> \in Ieee754Below
    THEN h - 1 ELSE h

\* a hybrid score returned as it is after the adjustments
unclamped(h) == h

\* hybrid = max(0.0, min(1.0, hybrid))
clamp(h) == Max(0, Min(One, h))

\* the weights are in 0.001; one rounding down to 10^-6 at the end, which
\* keeps every comparison with a threshold
compute_hybrid_score(rule_score, anomaly_score, rule_weight, ml_weight, alert_threshold) ==
    LET weighted == rule_weight * rule_score + ml_weight * anomaly_score
        concordance == determine_concordance(rule_score, anomaly_score)
        adjusted == IF concordance = "AGREE_HIGH" THEN Min(One, (weighted \div 1000) + 100000)
                    ELSE IF concordance = "ML_ONLY"
                    THEN (weighted \div 10000) * 7 + ((weighted % 10000) * 7) \div 10000
                    ELSE weighted \div 1000
        hybrid == ieee754(clamp(adjusted),
                          rule_score, anomaly_score, rule_weight, ml_weight)
        severity == fusion_classify_severity(hybrid)
    IN  [hybrid_score |-> hybrid, severity |-> severity, rule_score |-> rule_score,
         anomaly_score |-> anomaly_score, concordance |-> concordance,
         should_alert |-> severity_meets_threshold(severity, alert_threshold)]

---------------------------------------------------------------------------
(* Configuration: config.py                                                *)

\* settings.rule_weight = 0.6, in 0.001
rule_weight == 600

\* settings.ml_weight = 0.4, in 0.001
ml_weight == 400

alert_severity_threshold == "MEDIUM"

feature_window_minutes == 2

---------------------------------------------------------------------------
(* Per-tourist pipeline: main.py, _analyze_single_tourist                  *)

\* round(x, 4)
round4(x) == ((x + 50) \div 100) * 100

\* steps 1 to 4: enrich, rules, scorer, fusion.  [raised |-> TRUE] when
\* enrich_features raises (nothing in _analyze_single_tourist catches it).
\* score_model records which estimator produced ml_score.
analysis_core(agg_row, raw_events, d, raw) ==
    LET e == enrich_features(agg_row, raw_events, default_window_seconds)
    IN  IF e.raised THEN [raised |-> TRUE]
        ELSE LET rule_output == evaluate_rules(e.features, raw_events)
                 ml_score == predict(d, e.features, raw)
             IN  [raised |-> FALSE,
                  features |-> e.features,
                  rule_output |-> rule_output,
                  ml_score |-> ml_score,
                  score_model |-> d.model,
                  fusion |-> compute_hybrid_score(rule_output.rule_score, ml_score,
                                rule_weight, ml_weight, alert_severity_threshold)]

NoAlert == [present |-> FALSE]

\* the return of _analyze_single_tourist: None unless should_alert; d is the
\* scorer as read when the alert dict is built
build_alert(core, agg_row, d) ==
    IF ~core.fusion.should_alert THEN NoAlert
    ELSE [present |-> TRUE,
          tourist_id |-> agg_row["tourist_id"],
          rule_score |-> round4(core.fusion.rule_score),
          anomaly_score |-> round4(core.fusion.anomaly_score),
          hybrid_score |-> round4(core.fusion.hybrid_score),
          severity |-> core.fusion.severity,
          triggered_rules |-> core.rule_output.triggered_rules,
          zone_state |-> Get(agg_row, "latest_zone_state", "null"),
          model_version |-> d.model_version,
          score_model |-> core.score_model]

\* _analyze_single_tourist run without interruption
analyze_single_tourist(agg_row, raw_events, d, raw) ==
    LET core == analysis_core(agg_row, raw_events, d, raw)
    IN  IF core.raised THEN [raised |-> TRUE]
        ELSE [raised |-> FALSE, core |-> core, alert |-> build_alert(core, agg_row, d)]

---------------------------------------------------------------------------
(* Bounds and input sets                                                   *)

\* rows returned by one read of feature_agg_2min
MaxRows == 2

\* raw events in one tourist's window (SpecPipe)
MaxEvents == 2

\* rows of a predict_batch matrix
MaxBatch == 2

Event(zone, type, ts, lat) ==
    [zone_state |-> zone, event_type |-> type, timestamp |-> ts,
     latitude |-> lat, longitude |-> 77590]

\* aggregated rows of the feature_agg_2min view seen by the driver: a quiet
\* tourist, a panic press, a row whose event_count is not a number, a row
\* with an empty tourist_id
DriverRows ==
    { [tourist_id |-> "t1", event_count |-> 3, panic_count |-> 0],
      [tourist_id |-> "t2", event_count |-> 3, panic_count |-> 1],
      [tourist_id |-> "t3", event_count |-> NonNumeric, panic_count |-> 1],
      [tourist_id |-> "", event_count |-> 3, panic_count |-> 1] }

SeqsUpTo(S, n) == UNION { [1..k -> S] : k \in 0..n }

RowLists == SeqsUpTo(DriverRows, MaxRows)

\* what get_recent_events returns to the driver: nothing (also on a read
\* failure), or a SAFE -> IN_DANGER change within 8 s
DriverEventLists ==
    { <<>>,
      << Event("SAFE", "MOVE", "2026-01-01T12:00:00Z", 12970),
         Event("IN_DANGER", "ZONE_ENTER", "2026-01-01T12:00:08Z", 12971) >> }

\* model bundles a .joblib file may hold
BundleV1 ==
    [model |-> "m1", threshold |-> 40, feature_columns |-> FEATURE_COLUMNS,
     model_version |-> "v1", training_samples |-> 10]

BundleV2 ==
    [model |-> "m2", threshold |-> 55, feature_columns |-> SubSeq(FEATURE_COLUMNS, 1, 10),
     model_version |-> "v2", training_samples |-> 20]

\* a dict with the estimator only
BundleBare == [model |-> "m3"]

\* a dict without the "model" key
BundleNoModel == [threshold |-> 70, model_version |-> "v3"]

FileStates ==
    { [kind |-> "missing"], [kind |-> "corrupt"] }
    \cup { [kind |-> "bundle", data |-> b] :
              b \in {BundleV1, BundleV2, BundleBare, BundleNoModel} }

---------------------------------------------------------------------------
(* State                                                                   *)

VARIABLES
    det,          \* the AnomalyDetector singleton's fields
    file,         \* the model file at settings.model_path
    ld_pc,        \* load_model: 0 not running, k: the next assignment is the k+1-th
    ld_bundle,    \* load_model: the deserialized bundle
    ld_pre,       \* det as it was when the running / last load_model was called
    ld_ret,       \* "none", or the return value of the load_model that just returned
    ever_loaded,  \* some load_model has returned True
    rt_pc,        \* _retrain_background: idle, pending, reload, returned, raised
    cyc_pc,       \* analyze_all_tourists: idle, loop, fetched, fused, alert, done, raised
    instances,    \* the scheduler's count of running instances of the job
    tick_dropped, \* a timer tick was dropped since the last cycle started
    rows,         \* agg_rows of the running cycle
    idx,          \* position of the for loop in rows
    raw_events,   \* raw_events of the tourist at idx
    core,         \* features, rule_output, ml_score, fusion of the tourist at idx
    alert,        \* the alert dict of the tourist at idx
    trace,        \* per row of the cycle: fetched, analysed, should_alert, attempts
    stored,       \* rows inserted into incident_alerts by the running cycle
    p_pc,         \* SpecPipe: off, in, rules, done
    p_in,         \* SpecPipe: the drawn input
    p_rules,      \* SpecPipe: evaluate_rules(p_in.row, p_in.events)
    p_single,     \* SpecPipe: _analyze_single_tourist(p_in.row, p_in.events)
    life          \* lifespan: running, stopped (scheduler shut down), exited

scorer_vars == <<det, file, ld_pc, ld_bundle, ld_pre, ld_ret, ever_loaded, rt_pc>>

cycle_vars == <<cyc_pc, instances, tick_dropped, rows, idx, raw_events, core, alert, trace, stored>>

pipe_vars == <<p_pc, p_in, p_rules, p_single>>

vars == <<det, file, ld_pc, ld_bundle, ld_pre, ld_ret, ever_loaded, rt_pc,
          cyc_pc, instances, tick_dropped, rows, idx, raw_events, core, alert,
          trace, stored, p_pc, p_in, p_rules, p_single, life>>

---------------------------------------------------------------------------
(* Scorer life cycle: AnomalyDetector.load_model / reload                  *)

\* the five assignments of load_model, in order
LoadFields == <<"model", "threshold", "feature_columns", "model_version", "training_samples">>

\* the right-hand side of the assignment to field f from bundle b
bundle_field(b, f) ==
    CASE f = "model" -> b["model"]
      [] f = "threshold" -> Get(b, "threshold", 0)
      [] f = "feature_columns" -> Get(b, "feature_columns", FEATURE_COLUMNS)
      [] f = "model_version" -> Get(b, "model_version", "v1")
      [] f = "training_samples" -> Get(b, "training_samples", 0)

\* the scorer after a whole successful load_model of bundle b
Published(b) == [f \in DOMAIN Unloaded |-> bundle_field(b, f)]

\* p.exists() and joblib.load(p) succeed and bundle["model"] exists
loadable(f) == f.kind = "bundle" /\ "model" \in DOMAIN f.data

\* AnomalyDetector(model_path): the fields after __init__
constructed(f) == IF loadable(f) THEN Published(f.data) ELSE Unloaded

NoBundle == [kind |-> "none"]

NoCore == [raised |-> FALSE, present |-> FALSE]

NoRow ==
    [fetched |-> FALSE, read_failed |-> FALSE, analysed |-> FALSE,
     should_alert |-> FALSE, attempts |-> 0]

NoInput == [present |-> FALSE]

CycleIdle ==
    /\ cyc_pc = "idle"
    /\ instances = 0
    /\ tick_dropped = FALSE
    /\ rows = <<>>
    /\ idx = 0
    /\ raw_events = <<>>
    /\ core = NoCore
    /\ alert = NoAlert
    /\ trace = <<>>
    /\ stored = <<>>

PipeOff ==
    /\ p_pc = "off"
    /\ p_in = NoInput
    /\ p_rules = NoInput
    /\ p_single = NoInput

\* the service after lifespan's startup: the scorer constructed from
\* whatever the model file holds, the scheduler started, no cycle running
Init ==
    /\ file \in FileStates
    /\ det = constructed(file)
    /\ ld_pc = 0
    /\ ld_bundle = NoBundle
    /\ ld_pre = det
    /\ ld_ret = "none"
    /\ ever_loaded = loadable(file)
    /\ rt_pc = "idle"
    /\ CycleIdle
    /\ life = "running"
    /\ PipeOff

---------------------------------------------------------------------------
(* The event loop.  analyze_all_tourists and _retrain_background are       *)
(* coroutines without an await: the scheduler's AsyncIOExecutor and        *)
(* BackgroundTasks both run them on the one event loop, each to its end.   *)

cycle_running == cyc_pc # "idle"

retrain_running == rt_pc \in {"reload", "returned", "raised", "no_data"}

\* add_job(...) is given no max_instances: the scheduler's default
max_instances == 1

\* a scheduler that submits the job at every tick
cycle_starts_at_every_tick == TRUE

\* the scheduler submits the job unless max_instances of it are running;
\* the coroutine starts when the loop is free, and not after
\* scheduler.shutdown
cycle_may_start == instances < max_instances /\ ~retrain_running /\ life = "running"

\* a background task run in a worker thread, beside the loop
retrain_starts_in_a_thread == TRUE

\* the background task is awaited on the loop: it starts when no other
\* coroutine runs
retrain_may_start == ~cycle_running

---------------------------------------------------------------------------
(* The model file: written by train_and_save, and by whatever else         *)
(* replaces, truncates or removes it (training.train_model run from the    *)
(* command line with --version, an operator)                               *)

FileChange ==
    /\ ~cycle_running
    /\ \E f \in FileStates : f # file /\ file' = f
    /\ UNCHANGED <<det, ld_pc, ld_bundle, ld_pre, ld_ret, ever_loaded, rt_pc>>
    /\ UNCHANGED cycle_vars
    /\ UNCHANGED pipe_vars
    /\ UNCHANGED life

---------------------------------------------------------------------------
(* Retraining: POST /retrain, _retrain_background                          *)

\* POST /retrain: background_tasks.add_task(_retrain_background)
RequestRetrain ==
    /\ life = "running"
    /\ rt_pc = "idle"
    /\ rt_pc' = "pending"
    /\ UNCHANGED <<det, file, ld_pc, ld_bundle, ld_pre, ld_ret, ever_loaded>>
    /\ UNCHANGED cycle_vars
    /\ UNCHANGED pipe_vars
    /\ UNCHANGED life

\* a train(days=7) that checks the data after it has written a bundle with
\* no estimator
RetrainNoDataWritten ==
    /\ rt_pc = "pending"
    /\ retrain_may_start
    /\ file' = [kind |-> "bundle", data |-> BundleNoModel]
    /\ rt_pc' = "no_data"
    /\ UNCHANGED <<det, ld_pc, ld_bundle, ld_pre, ld_ret, ever_loaded>>
    /\ UNCHANGED cycle_vars
    /\ UNCHANGED pipe_vars
    /\ UNCHANGED life

\* train(days=7) raises ValueError: no SAFE-mode rows, or fewer than 10
\* feature windows; nothing is written
RetrainNoData ==
    /\ rt_pc = "pending"
    /\ retrain_may_start
    /\ rt_pc' = "no_data"
    /\ UNCHANGED <<det, file, ld_pc, ld_bundle, ld_pre, ld_ret, ever_loaded>>
    /\ UNCHANGED cycle_vars
    /\ UNCHANGED pipe_vars
    /\ UNCHANGED life

\* train_and_save: joblib.dump(bundle, output_path) writes the file in
\* place; an error while writing leaves a truncated file
RetrainWriteFails ==
    /\ rt_pc = "pending"
    /\ retrain_may_start
    /\ file' = [kind |-> "corrupt"]
    /\ rt_pc' = "raised"
    /\ UNCHANGED <<det, ld_pc, ld_bundle, ld_pre, ld_ret, ever_loaded>>
    /\ UNCHANGED cycle_vars
    /\ UNCHANGED pipe_vars
    /\ UNCHANGED life

\* train(days=7) returns: the bundle (version "v1") is on disk
RetrainTrained ==
    /\ rt_pc = "pending"
    /\ retrain_may_start
    /\ file' = [kind |-> "bundle", data |-> BundleV1]
    /\ rt_pc' = "reload"
    /\ UNCHANGED <<det, ld_pc, ld_bundle, ld_pre, ld_ret, ever_loaded>>
    /\ UNCHANGED cycle_vars
    /\ UNCHANGED pipe_vars
    /\ UNCHANGED life

\* a load_model that clears the fields before it reads the file
LoadFailsCleared ==
    /\ rt_pc = "reload"
    /\ ld_pc = 0
    /\ ~loadable(file)
    /\ ld_pre' = det
    /\ det' = Unloaded
    /\ ld_ret' = "False"
    /\ rt_pc' = "returned"
    /\ UNCHANGED <<file, ld_pc, ld_bundle, ever_loaded>>
    /\ UNCHANGED cycle_vars
    /\ UNCHANGED pipe_vars
    /\ UNCHANGED life

\* load_model returns False: the file is missing, joblib.load raises, or
\* bundle["model"] raises KeyError before anything is assigned
LoadFails ==
    /\ rt_pc = "reload"
    /\ ld_pc = 0
    /\ ~loadable(file)
    /\ ld_pre' = det
    /\ ld_ret' = "False"
    /\ rt_pc' = "returned"
    /\ UNCHANGED <<det, file, ld_pc, ld_bundle, ever_loaded>>
    /\ UNCHANGED cycle_vars
    /\ UNCHANGED pipe_vars
    /\ UNCHANGED life

\* bundle = joblib.load(p); self.model = bundle["model"]
LoadBegin ==
    /\ rt_pc = "reload"
    /\ ld_pc = 0
    /\ loadable(file)
    /\ ld_pre' = det
    /\ ld_bundle' = file.data
    /\ det' = [det EXCEPT !["model"] = bundle_field(file.data, "model")]
    /\ ld_pc' = 1
    /\ UNCHANGED <<file, ld_ret, ever_loaded, rt_pc>>
    /\ UNCHANGED cycle_vars
    /\ UNCHANGED pipe_vars
    /\ UNCHANGED life

\* the next of self.threshold, self.feature_columns, self.model_version,
\* self.training_samples = bundle.get(...); after the last, return True
LoadAssign ==
    /\ rt_pc = "reload"
    /\ ld_pc \in 1..4
    /\ det' = [det EXCEPT ![LoadFields[ld_pc + 1]] = bundle_field(ld_bundle, LoadFields[ld_pc + 1])]
    /\ IF ld_pc = 4
       THEN /\ ld_pc' = 0
            /\ ld_bundle' = NoBundle
            /\ ld_ret' = "True"
            /\ ever_loaded' = TRUE
            /\ rt_pc' = "returned"
       ELSE /\ ld_pc' = ld_pc + 1
            /\ UNCHANGED <<ld_bundle, ld_ret, ever_loaded, rt_pc>>
    /\ UNCHANGED <<file, ld_pre>>
    /\ UNCHANGED cycle_vars
    /\ UNCHANGED pipe_vars
    /\ UNCHANGED life

\* _retrain_background ends: after reload(), or in its except clause
RetrainExit ==
    /\ rt_pc \in {"returned", "raised", "no_data"}
    /\ rt_pc' = "idle"
    /\ ld_ret' = "none"
    /\ ld_pre' = det
    /\ UNCHANGED <<det, file, ld_pc, ld_bundle, ever_loaded>>
    /\ UNCHANGED cycle_vars
    /\ UNCHANGED pipe_vars
    /\ UNCHANGED life

---------------------------------------------------------------------------
(* The analysis driver: the interval job and analyze_all_tourists          *)

\* the timer fires while the job may not start: the run is skipped
TickDropped ==
    /\ life = "running"
    /\ ~cycle_may_start
    /\ tick_dropped = FALSE
    /\ tick_dropped' = TRUE
    /\ UNCHANGED <<cyc_pc, instances, rows, idx, raw_events, core, alert, trace, stored>>
    /\ UNCHANGED scorer_vars
    /\ UNCHANGED pipe_vars
    /\ UNCHANGED life

\* the timer fires and analyze_all_tourists starts:
\* agg_rows = get_aggregated_features(), the rows of the view, or the
\* query raises and get_aggregated_features is in its except clause;
\* if not agg_rows: return
CycleStart ==
    /\ cycle_may_start
    /\ instances' = instances + 1
    /\ tick_dropped' = FALSE
    /\ \/ \E rs \in RowLists :
             /\ rows' = rs
             /\ trace' = [i \in 1..Len(rs) |-> NoRow]
             /\ cyc_pc' = IF rs = <<>> THEN "done" ELSE "loop"
       \/ /\ rows' = <<>>
          /\ trace' = <<>>
          /\ cyc_pc' = "agg_read_failed"
    /\ idx' = 1
    /\ raw_events' = <<>>
    /\ core' = NoCore
    /\ alert' = NoAlert
    /\ stored' = <<>>
    /\ UNCHANGED scorer_vars
    /\ UNCHANGED pipe_vars
    /\ UNCHANGED life

\* tourist_id = agg_row.get("tourist_id"); if not tourist_id
valid_tourist_id(agg_row) == Get(agg_row, "tourist_id", "") # ""

\* the for loop ends: the cycle totals are logged and the coroutine returns
LoopEnd ==
    /\ cyc_pc = "loop"
    /\ idx > Len(rows)
    /\ cyc_pc' = "done"
    /\ UNCHANGED <<instances, tick_dropped, rows, idx, raw_events, core, alert, trace, stored>>
    /\ UNCHANGED scorer_vars
    /\ UNCHANGED pipe_vars
    /\ UNCHANGED life

\* a row without a tourist_id: continue
LoopSkip ==
    /\ cyc_pc = "loop"
    /\ idx <= Len(rows)
    /\ ~valid_tourist_id(rows[idx])
    /\ idx' = idx + 1
    /\ UNCHANGED <<cyc_pc, instances, tick_dropped, rows, raw_events, core, alert, trace, stored>>
    /\ UNCHANGED scorer_vars
    /\ UNCHANGED pipe_vars
    /\ UNCHANGED life

\* get_aggregated_features logs the exception and returns []: the cycle
\* returns at `if not agg_rows`
AggReadFailed ==
    /\ cyc_pc = "agg_read_failed"
    /\ cyc_pc' = "done"
    /\ UNCHANGED <<instances, tick_dropped, rows, idx, raw_events, core, alert, trace, stored>>
    /\ UNCHANGED scorer_vars
    /\ UNCHANGED pipe_vars
    /\ UNCHANGED life

\* raw_events = get_recent_events(tourist_id, window_minutes=...): the
\* events read, or [] when the query raises, which the trace of the cycle
\* records when observed
get_recent_events_step(observed) ==
    /\ cyc_pc = "loop"
    /\ idx <= Len(rows)
    /\ valid_tourist_id(rows[idx])
    /\ \E ev \in DriverEventLists, failed \in BOOLEAN :
          /\ failed => ev = <<>>
          /\ raw_events' = ev
          /\ trace' = [trace EXCEPT ![idx].fetched = TRUE,
                                    ![idx].read_failed = failed /\ observed]
    /\ cyc_pc' = "fetched"
    /\ UNCHANGED <<instances, tick_dropped, rows, idx, core, alert, stored>>
    /\ UNCHANGED scorer_vars
    /\ UNCHANGED pipe_vars
    /\ UNCHANGED life

FetchEvents == get_recent_events_step(FALSE)

\* the same step with the outcome of the read kept in the trace
FetchEventsObserved == get_recent_events_step(TRUE)

\* _analyze_single_tourist, steps 1 to 4; an exception of enrich_features
\* leaves _analyze_single_tourist and analyze_all_tourists
AnalyzeCore ==
    /\ cyc_pc = "fetched"
    /\ \E raw \in RawScores :
          LET c == analysis_core(rows[idx], raw_events, det, raw)
          IN  /\ core' = c
              /\ IF c.raised
                 THEN /\ cyc_pc' = "raised"
                      /\ UNCHANGED trace
                 ELSE /\ cyc_pc' = "fused"
                      /\ trace' = [trace EXCEPT ![idx].analysed = TRUE,
                                                ![idx].should_alert = c.fusion.should_alert]
    /\ UNCHANGED <<instances, tick_dropped, rows, idx, raw_events, alert, stored>>
    /\ UNCHANGED scorer_vars
    /\ UNCHANGED pipe_vars
    /\ UNCHANGED life

\* _analyze_single_tourist returns None or the alert dict; if alert: ...
BuildAlert ==
    /\ cyc_pc = "fused"
    /\ LET a == build_alert(core, rows[idx], det)
       IN  IF a.present
           THEN /\ alert' = a
                /\ cyc_pc' = "alert"
                /\ UNCHANGED <<idx, core, raw_events>>
           ELSE /\ alert' = NoAlert
                /\ cyc_pc' = "loop"
                /\ idx' = idx + 1
                /\ core' = NoCore
                /\ raw_events' = <<>>
    /\ UNCHANGED <<instances, tick_dropped, rows, trace, stored>>
    /\ UNCHANGED scorer_vars
    /\ UNCHANGED pipe_vars
    /\ UNCHANGED life

\* supabase_svc.insert_incident_alert(alert): inserted, or the failure is
\* logged and False returned; the loop goes on either way
InsertAlert ==
    /\ cyc_pc = "alert"
    /\ \E ok \in BOOLEAN : stored' = IF ok THEN Append(stored, alert) ELSE stored
    /\ trace' = [trace EXCEPT ![idx].attempts = @ + 1]
    /\ cyc_pc' = "loop"
    /\ idx' = idx + 1
    /\ alert' = NoAlert
    /\ core' = NoCore
    /\ raw_events' = <<>>
    /\ UNCHANGED <<instances, tick_dropped, rows>>
    /\ UNCHANGED scorer_vars
    /\ UNCHANGED pipe_vars
    /\ UNCHANGED life

\* the coroutine is over (returned, or raised into the scheduler, which
\* logs the exception): the job instance is released
CycleReturn ==
    /\ cyc_pc \in {"done", "raised"}
    /\ cyc_pc' = "idle"
    /\ instances' = instances - 1
    /\ tick_dropped' = FALSE
    /\ rows' = <<>>
    /\ idx' = 0
    /\ raw_events' = <<>>
    /\ core' = NoCore
    /\ alert' = NoAlert
    /\ trace' = <<>>
    /\ stored' = <<>>
    /\ UNCHANGED scorer_vars
    /\ UNCHANGED pipe_vars
    /\ UNCHANGED life

\* the code after lifespan's yield runs on the event loop once the server
\* has finished its requests: no coroutine of the service is part-way
\* through (none of them awaits)
shutdown_mid_cycle == TRUE

shutdown_may_run == ~cycle_running /\ rt_pc = "idle"

\* scheduler.shutdown(wait=False)
Shutdown ==
    /\ life = "running"
    /\ shutdown_may_run
    /\ life' = "stopped"
    /\ UNCHANGED scorer_vars
    /\ UNCHANGED cycle_vars
    /\ UNCHANGED pipe_vars

\* lifespan returns and the process ends: supabase_svc and anomaly_detector,
\* the module's globals, go with it
ProcessExit ==
    /\ life = "stopped"
    /\ life' = "exited"
    /\ UNCHANGED scorer_vars
    /\ UNCHANGED cycle_vars
    /\ UNCHANGED pipe_vars

Next ==
    \/ FileChange
    \/ RequestRetrain
    \/ RetrainNoData
    \/ RetrainWriteFails
    \/ RetrainTrained
    \/ LoadFails
    \/ LoadBegin
    \/ LoadAssign
    \/ RetrainExit
    \/ TickDropped
    \/ CycleStart
    \/ AggReadFailed
    \/ LoopEnd
    \/ LoopSkip
    \/ FetchEvents
    \/ AnalyzeCore
    \/ BuildAlert
    \/ InsertAlert
    \/ CycleReturn
    \/ Shutdown
    \/ ProcessExit

Spec == Init /\ [][Next]_vars

\* the analysis driver alone, with a scorer that does not change and the
\* outcome of each read of raw events kept in the trace
NextDriver ==
    \/ TickDropped
    \/ CycleStart
    \/ AggReadFailed
    \/ LoopEnd
    \/ LoopSkip
    \/ FetchEventsObserved
    \/ AnalyzeCore
    \/ BuildAlert
    \/ InsertAlert
    \/ CycleReturn

SpecDriver == Init /\ [][NextDriver]_vars

---------------------------------------------------------------------------
(* The pipeline as a function of its inputs: evaluate_rules called on a    *)
(* feature dict and an event list, _analyze_single_tourist on an           *)
(* aggregated row, its events and the scorer                               *)

\* a dict with the keys of vals that are not Absent
DictOf(vals) == [k \in {c \in DOMAIN vals : vals[c] # Absent} |-> vals[k]]

WithZone(r, z) ==
    IF z = "" THEN r
    ELSE [k \in DOMAIN r \cup {"latest_zone_state"} |->
             IF k = "latest_zone_state" THEN z ELSE r[k]]

WithId(r) ==
    [k \in DOMAIN r \cup {"tourist_id"} |-> IF k = "tourist_id" THEN "t1" ELSE r[k]]

\* feature dicts around every rule's thresholds, with None, non-numeric
\* and absent values
FeatureSpace ==
    { WithId(WithZone(DictOf([max_risk_timer |-> timer, danger_ratio |-> ratio,
                              panic_count |-> panic, zone_transitions |-> trans]), z)) :
        timer \in {0, 29, 30, 59, 60, 119, 120, Null, NonNumeric, Absent},
        ratio \in {500000, 510000, Null},
        panic \in {0, 1, NonNumeric},
        trans \in {2, 3},
        z \in {"", "IN_DANGER"} }

Timestamps ==
    { "", TsNone, "garbage",
      "2026-01-01T12:00:00+00:00", "2026-01-01T12:00:00.500Z",
      "2026-01-01T12:00:00Z", "2026-01-01T12:00:08Z",
      "2026-01-01T12:00:10.001Z", "2026-01-01T12:00:10Z" }

EventSpace ==
    { Event("SAFE", "MOVE", ts, 12970) : ts \in Timestamps }
    \cup { Event("IN_DANGER", "ZONE_ENTER", ts, 12971) : ts \in Timestamps }
    \cup { Event("IN_CAUTION", "MOVE", "2026-01-01T12:00:08Z", 12972),
           Event("SAFE", "ZONE_EXIT", "2026-01-01T12:00:10Z", 12973) }

EventLists == SeqsUpTo(EventSpace, MaxEvents)

\* an event between a SAFE and an IN_DANGER event 8 s apart whose
\* timestamp is absent, null, unparseable or valid and whose latitude is a
\* number, null, a string, float("inf") or absent
InvalidEvents ==
    { Event("IN_CAUTION", "MOVE", ts, lat) :
        ts \in {"", TsNone, "garbage", "2026-01-01T12:00:08Z"},
        lat \in {12972, Null, NonNumeric, NonFinite, Absent} }

InvalidEventLists ==
    { << Event("SAFE", "MOVE", "2026-01-01T12:00:00Z", 12970), x,
         Event("IN_DANGER", "ZONE_ENTER", "2026-01-01T12:00:08Z", 12971) >> :
        x \in InvalidEvents }
    \cup { << Event("SAFE", "MOVE", "2026-01-01T12:00:00Z", 12970), x >> : x \in InvalidEvents }

\* a scorer and the decision_function output it would give
ScorerSpace ==
    { [d |-> Unloaded, raw |-> 0] }
    \cup { [d |-> Published(BundleV1), raw |-> raw] : raw \in RawScores }

PipeInputs ==
    { [present |-> TRUE, row |-> r, events |-> ev, d |-> sc.d, raw |-> sc.raw] :
        r \in FeatureSpace,
        ev \in DriverEventLists \cup { << Event("SAFE", "ZONE_EXIT", "2026-01-01T12:00:10Z", 12973) >> },
        sc \in ScorerSpace }
    \cup
    { [present |-> TRUE, row |-> r, events |-> ev, d |-> sc.d, raw |-> sc.raw] :
        r \in { WithId([max_risk_timer |-> 0, zone_transitions |-> 3]),
                WithId([max_risk_timer |-> 30, latest_zone_state |-> "IN_DANGER"]) },
        ev \in EventLists \cup InvalidEventLists,
        sc \in { [d |-> Unloaded, raw |-> 0], [d |-> Published(BundleV1), raw |-> 200] } }

InitPipe ==
    /\ file = [kind |-> "missing"]
    /\ det = Unloaded
    /\ ld_pc = 0
    /\ ld_bundle = NoBundle
    /\ ld_pre = det
    /\ ld_ret = "none"
    /\ ever_loaded = FALSE
    /\ rt_pc = "idle"
    /\ CycleIdle
    /\ life = "running"
    /\ p_in \in PipeInputs
    /\ p_pc = "in"
    /\ p_rules = NoInput
    /\ p_single = NoInput

\* rule_output = evaluate_rules(features, events)
PipeEvaluateRules ==
    /\ p_pc = "in"
    /\ p_rules' = [present |-> TRUE, out |-> evaluate_rules(p_in.row, p_in.events)]
    /\ p_pc' = "rules"
    /\ UNCHANGED <<p_in, p_single>>
    /\ UNCHANGED scorer_vars
    /\ UNCHANGED cycle_vars
    /\ UNCHANGED life

\* _analyze_single_tourist(agg_row, raw_events)
PipeAnalyze ==
    /\ p_pc = "rules"
    /\ p_single' = [present |-> TRUE,
                    out |-> analyze_single_tourist(p_in.row, p_in.events, p_in.d, p_in.raw)]
    /\ p_pc' = "done"
    /\ UNCHANGED <<p_in, p_rules>>
    /\ UNCHANGED scorer_vars
    /\ UNCHANGED cycle_vars
    /\ UNCHANGED life

NextPipe ==
    \/ PipeEvaluateRules
    \/ PipeAnalyze

SpecPipe == InitPipe /\ [][NextPipe]_vars

---------------------------------------------------------------------------
(* Properties of the analysis driver (Spec)                                *)

cycle_over == cyc_pc \in {"done", "raised"}

\* C1: analyze_all_tourists never raises out of a cycle; a tourist whose
\* analysis fails is skipped, and every other row with a valid tourist_id
\* of the same cycle is still analysed.
C1_CycleNeverRaises ==
    /\ cyc_pc # "raised"
    /\ cycle_over =>
          \A i \in 1..Len(rows) :
             (valid_tourist_id(rows[i]) /\ i # idx) => trace[i].analysed

\* C2: in every cycle, each row with a valid tourist_id (other than one
\* whose analysis failed) is analysed and has one insert attempted when
\* should_alert is true and none when it is false; a row without a valid
\* tourist_id causes no event fetch and no insert; no insert is retried.
C2_OneInsertPerAlertingRow ==
    cycle_over =>
       \A i \in 1..Len(rows) :
          IF valid_tourist_id(rows[i])
          THEN /\ i # idx => trace[i].analysed
               /\ trace[i].attempts = IF trace[i].should_alert THEN 1 ELSE 0
          ELSE ~trace[i].fetched /\ trace[i].attempts = 0

\* C2, for the cycles that do not raise: the same, at the end of the loop
C2_OneInsertPerAlertingRow_Returned ==
    cyc_pc = "done" =>
       \A i \in 1..Len(rows) :
          IF valid_tourist_id(rows[i])
          THEN /\ trace[i].analysed
               /\ trace[i].attempts = IF trace[i].should_alert THEN 1 ELSE 0
          ELSE ~trace[i].fetched /\ trace[i].attempts = 0

\* C3: at most one analysis cycle runs at any time: the job has at most one
\* running instance, and it is the running cycle.
C3_AtMostOneCycle ==
    /\ instances <= 1
    /\ cycle_running <=> instances = 1

\* a tick fired while a cycle was analysing a tourist, and was dropped
C3_Witness ==
    /\ cyc_pc = "fetched"
    /\ instances = 1
    /\ tick_dropped

---------------------------------------------------------------------------
(* Properties of the scorer's lifecycle (Spec)                             *)

LoadableBundles == {BundleV1, BundleV2, BundleBare}

\* the scorer holds one whole bundle, or none
whole_bundle(d) == d = Unloaded \/ \E b \in LoadableBundles : d = Published(b)

\* the model_version of the bundle whose estimator is m
version_of(m) ==
    IF m = NoModel THEN "none"
    ELSE bundle_field(CHOOSE b \in LoadableBundles : b.model = m, "model_version")

analysis_in_flight == cyc_pc \in {"fetched", "fused", "alert"}

C5_FailedLoadKeepsBundle ==
    /\ ld_ret = "False" => det = ld_pre
    /\ ever_loaded => det.model # NoModel
    /\ (ever_loaded /\ ld_pc = 0) => \E b \in LoadableBundles : det = Published(b)

\* a reload failed while bundle v2 was being served
C5_Witness ==
    /\ ld_ret = "False"
    /\ ever_loaded
    /\ det = Published(BundleV2)
    /\ ~loadable(file)

\* C6: while no load has ever succeeded (and none is running), predict
\* returns 0.0 whatever the estimator would say, predict_batch returns one
\* zero per row, and the analysis of a tourist gets ml_score 0.
C6_UnloadedPredictsZero ==
    (~ever_loaded /\ ld_pc = 0) =>
       /\ \A raw \in RawScores : \A f \in {<<>>, [panic_count |-> 1]} :
             predict(det, f, raw) = 0
       /\ \A raws \in SeqsUpTo(RawScores, MaxBatch) :
             predict_batch(det, raws) = [i \in 1..Len(raws) |-> 0]
       /\ cyc_pc = "fused" => core.ml_score = 0

\* constructed without a loadable file, a reload has failed since
C6_Witness ==
    /\ ~ever_loaded
    /\ ld_ret = "False"
    /\ det = Unloaded
    /\ predict_batch(det, <<200, 0 - 200>>) = <<0, 0>>

---------------------------------------------------------------------------
(* Properties of the pipeline (SpecPipe)                                   *)

\* anomaly scores k / GridPoints of [0, 1]
GridPoints == 100

AnomalyGrid == { (k * One) \div GridPoints : k \in 0..GridPoints }

rules_done == p_pc \in {"rules", "done"}

analysed == p_pc = "done" /\ ~p_single.out.raised

SeqRange(q) == { q[i] : i \in 1..Len(q) }

\* C7: with the default weights and threshold MEDIUM, a tourist with at
\* least one triggered rule alerts: with no model (anomaly_score 0), with
\* the model's score, and for every anomaly_score of [0, 1]; a panic press
\* alone with no model gives hybrid 0.6, RULE_ONLY, HIGH.
C7_RulesAloneAlert ==
    (analysed /\ p_single.out.core.rule_output.triggered_rules # <<>>) =>
       LET c == p_single.out.core
       IN  /\ c.fusion.should_alert
           /\ p_single.out.alert.present
           /\ p_in.d = Unloaded => c.ml_score = 0
           /\ \A a \in AnomalyGrid :
                 compute_hybrid_score(c.rule_output.rule_score, a, rule_weight,
                                      ml_weight, alert_severity_threshold).should_alert
           /\ (p_in.d = Unloaded /\ c.rule_output.triggered_rules = <<"R2">>) =>
                 /\ c.fusion.hybrid_score = 600000
                 /\ c.fusion.concordance = "RULE_ONLY"
                 /\ c.fusion.severity = "HIGH"

\* a panic press analysed with no model loaded
C7_Witness ==
    /\ analysed
    /\ p_in.d = Unloaded
    /\ p_single.out.core.rule_output.triggered_rules = <<"R2">>
    /\ p_single.out.alert.present
    /\ p_single.out.alert.hybrid_score = 600000

\* the rules that return (do not raise) with triggered = True
triggered_set(features, events) ==
    { id \in SeqRange(ALL_RULES) :
         LET r == call_rule(id, features, events) IN ~r.raised /\ r.triggered }

largest(S) == CHOOSE x \in S : \A y \in S : y <= x

raisers(features, events) ==
    { id \in SeqRange(ALL_RULES) : call_rule(id, features, events).raised }

\* C9: when rule evaluators raise, evaluate_rules returns: the failing rules
\* are in neither triggered_rules nor details, every other rule is in
\* details, and triggered_rules and rule_score are those of the other rules.
C9_RaisingRuleContained ==
    (rules_done /\ raisers(p_in.row, p_in.events) # {}) =>
       LET out == p_rules.out
           bad == raisers(p_in.row, p_in.events)
           T == triggered_set(p_in.row, p_in.events)
       IN  /\ SeqRange(out.triggered_rules) \cap bad = {}
           /\ { out.details[i].rule_id : i \in 1..Len(out.details) }
                 = SeqRange(ALL_RULES) \ bad
           /\ out.triggered_rules = SelectSeq(ALL_RULES, LAMBDA id : id \in T)
           /\ out.rule_score =
                 IF T = {} THEN 0
                 ELSE Min(One, float_boost(
                         largest({ call_rule(id, p_in.row, p_in.events).score : id \in T }),
                         Cardinality(T)))

\* R2 alone raises (panic_count is not a number); R1 and R4 are triggered
C9_Witness ==
    /\ rules_done
    /\ raisers(p_in.row, p_in.events) = {"R2"}
    /\ p_rules.out.triggered_rules = <<"R1", "R4">>
    /\ p_rules.out.rule_score = 900000

\* the instants of a SAFE event and of a later IN_DANGER event at most
\* 10 s after it, among the events whose timestamp parses
safe_then_danger(events) ==
    \E i, j \in 1..Len(events) :
       /\ events[i].zone_state = "SAFE"
       /\ events[j].zone_state = "IN_DANGER"
       /\ TsInstant(events[i].timestamp) # Unparseable
       /\ TsInstant(events[j].timestamp) # Unparseable
       /\ TsInstant(events[j].timestamp) > TsInstant(events[i].timestamp)
       /\ TsInstant(events[j].timestamp) - TsInstant(events[i].timestamp) <= 10000

\* C10: R3 is triggered exactly when the events hold a SAFE event and an
\* IN_DANGER event later in time and at most 10 s after it, events whose
\* timestamp cannot be parsed being ignored.
C10_R3ExactlyWhen ==
    rules_done =>
       ("R3" \in SeqRange(p_rules.out.triggered_rules) <=> safe_then_danger(p_in.events))

---------------------------------------------------------------------------
(* Properties of the rules in the driver's analysis (SpecPipe)             *)

has_zone_exit(events) ==
    \E i \in 1..Len(events) : events[i].event_type = "ZONE_EXIT"

\* C11: in the per-tourist analysis, an aggregated row with
\* latest_zone_state = IN_DANGER and max_risk_timer >= 30 whose events hold
\* no ZONE_EXIT triggers R6: R6 is in triggered_rules, with score 0.75.
C11_R6InDriver ==
    (/\ analysed
     /\ Get(p_in.row, "latest_zone_state", "") = "IN_DANGER"
     /\ Get(p_in.row, "max_risk_timer", 0) >= 30
     /\ ~has_zone_exit(p_in.events)) =>
       LET out == p_single.out.core.rule_output
       IN  /\ "R6" \in SeqRange(out.triggered_rules)
           /\ \E i \in 1..Len(out.details) :
                 out.details[i].rule_id = "R6" /\ out.details[i].score = 750000

\* C12: when the event list is empty (or omitted, which evaluate_rules
\* reads as empty), neither R3 nor R6 is triggered, whatever the features.
C12_NoEventsNoEventRules ==
    (rules_done /\ p_in.events = <<>>) =>
       \A i \in 1..Len(p_rules.out.details) :
          p_rules.out.details[i].rule_id \in {"R3", "R6"}
             => ~p_rules.out.details[i].triggered

\* the rule table for the feature-only rules: the condition and the score
\* of a triggered rule, an absent feature being 0
table_triggered(id, features) ==
    CASE id = "R1" -> Get(features, "max_risk_timer", 0) >= 60
                      /\ Get(features, "danger_ratio", 0) > 500000
      [] id = "R2" -> Get(features, "panic_count", 0) > 0
      [] id = "R4" -> Get(features, "zone_transitions", 0) >= 3
      [] id = "R5" -> Get(features, "max_risk_timer", 0) >= 120

table_score(id) ==
    CASE id = "R1" -> 800000
      [] id = "R2" -> One
      [] id = "R4" -> 600000
      [] id = "R5" -> 900000

numeric_features(features) ==
    \A c \in {"max_risk_timer", "danger_ratio", "panic_count", "zone_transitions"} :
       IsNumber(Get(features, c, 0))

\* C13: R1, R2, R4 and R5 follow the rule table: R1 iff max_risk_timer >= 60
\* and danger_ratio > 0.5, R2 iff panic_count > 0, R4 iff zone_transitions
\* >= 3, R5 iff max_risk_timer >= 120; a triggered rule scores 0.8, 1.0, 0.6,
\* 0.9, an untriggered one 0; an absent feature is read as 0.
C13_RuleTable ==
    rules_done =>
       LET details == p_rules.out.details
       IN  /\ \A i \in 1..Len(details) :
                details[i].rule_id \in {"R1", "R2", "R4", "R5"} =>
                   /\ details[i].triggered = table_triggered(details[i].rule_id, p_in.row)
                   /\ details[i].score = IF details[i].triggered
                                         THEN table_score(details[i].rule_id) ELSE 0
           /\ numeric_features(p_in.row) =>
                 {"R1", "R2", "R4", "R5"} \subseteq { details[i].rule_id : i \in 1..Len(details) }

\* max_risk_timer 60 with danger_ratio 0.5: R1 returns untriggered, while
\* R2 (a panic press) and R4 (3 zone transitions) are triggered
C13_Witness ==
    /\ rules_done
    /\ Get(p_in.row, "max_risk_timer", 0) = 60
    /\ Get(p_in.row, "danger_ratio", 0) = 500000
    /\ "zone_transitions" \in DOMAIN p_in.row
    /\ p_rules.out.triggered_rules = <<"R2", "R4">>
    /\ \E i \in 1..Len(p_rules.out.details) :
          p_rules.out.details[i].rule_id = "R1" /\ ~p_rules.out.details[i].triggered

\* C14: rule_score is in [0, 1]; triggered_rules is a duplicate-free
\* sub-sequence of R1..R6 in definition order, and holds the rule_ids of
\* exactly the details entries whose triggered flag is true.
C14_RuleOutputShape ==
    rules_done =>
       LET out == p_rules.out
           flagged == { out.details[i].rule_id :
                           i \in { j \in 1..Len(out.details) : out.details[j].triggered } }
       IN  /\ 0 <= out.rule_score /\ out.rule_score <= One
           /\ out.triggered_rules =
                 SelectSeq(ALL_RULES, LAMBDA id : id \in SeqRange(out.triggered_rules))
           /\ out.triggered_rules = SelectSeq(ALL_RULES, LAMBDA id : id \in flagged)
           /\ Cardinality(SeqRange(out.triggered_rules)) = Len(out.triggered_rules)

\* four rules triggered together, the sum 1.0 + 0.3 capped
C14_Witness ==
    /\ rules_done
    /\ Len(p_rules.out.triggered_rules) = 4
    /\ Len(p_rules.out.details) = 6
    /\ p_rules.out.rule_score = One

---------------------------------------------------------------------------
(* The fusion as a function of its inputs: compute_hybrid_score on scores  *)
(* of a grid of [0, 1], with the default and with other weights            *)

\* (rule_weight, ml_weight) in 0.001: the defaults, a pair whose sum
\* exceeds 1, a pair with a negative weight
DefaultWeights == [rw |-> rule_weight, mw |-> ml_weight]

OtherWeights == { [rw |-> 900, mw |-> 800], [rw |-> 0 - 500, mw |-> 200] }

FusionInputs ==
    { [present |-> TRUE, rule_score |-> r, anomaly_score |-> a,
       weights |-> DefaultWeights, alert_threshold |-> t] :
        r \in AnomalyGrid, a \in AnomalyGrid, t \in SeqRange(SEVERITY_LEVELS) }
    \cup
    { [present |-> TRUE, rule_score |-> r, anomaly_score |-> a,
       weights |-> w, alert_threshold |-> alert_severity_threshold] :
        r \in AnomalyGrid, a \in AnomalyGrid, w \in OtherWeights }

InitFusion ==
    /\ file = [kind |-> "missing"]
    /\ det = Unloaded
    /\ ld_pc = 0
    /\ ld_bundle = NoBundle
    /\ ld_pre = det
    /\ ld_ret = "none"
    /\ ever_loaded = FALSE
    /\ rt_pc = "idle"
    /\ CycleIdle
    /\ life = "running"
    /\ p_in \in FusionInputs
    /\ p_pc = "scores"
    /\ p_rules = NoInput
    /\ p_single = NoInput

\* fusion = compute_hybrid_score(rule_score, anomaly_score, rule_weight,
\*                               ml_weight, alert_threshold)
Fuse ==
    /\ p_pc = "scores"
    /\ p_single' = [present |-> TRUE,
                    out |-> compute_hybrid_score(p_in.rule_score, p_in.anomaly_score,
                                                 p_in.weights.rw, p_in.weights.mw,
                                                 p_in.alert_threshold)]
    /\ p_pc' = "fusion"
    /\ UNCHANGED <<p_in, p_rules>>
    /\ UNCHANGED scorer_vars
    /\ UNCHANGED cycle_vars
    /\ UNCHANGED life

NextFusion == Fuse

SpecFusion == InitFusion /\ [][NextFusion]_vars

fused == p_pc = "fusion"

---------------------------------------------------------------------------
(* Properties of the fusion (SpecFusion)                                   *)

\* the concordance by first match, in the order AGREE_HIGH, AGREE_LOW,
\* RULE_ONLY, ML_ONLY, CONFLICT
concordance_table(r, a) ==
    LET matches == << r > 500000 /\ a > 500000, r < 200000 /\ a < 300000,
                      r > 500000 /\ a < 300000, r < 200000 /\ a > 700000, TRUE >>
        labels == <<"AGREE_HIGH", "AGREE_LOW", "RULE_ONLY", "ML_ONLY", "CONFLICT">>
        first == CHOOSE i \in 1..5 : matches[i] /\ \A j \in 1..(i - 1) : ~matches[j]
    IN  labels[first]

\* h = w_r * rule_score + w_m * anomaly_score in 10^-9, then min(1, h + 0.1)
\* for AGREE_HIGH, h * 0.7 for ML_ONLY, h otherwise, in decimals, rounded
\* down to 10^-6
decimal_hybrid(r, a, rw, mw) ==
    LET h == rw * r + mw * a
        c == concordance_table(r, a)
    IN  IF c = "AGREE_HIGH" THEN Min(One, (h \div 1000) + 100000)
        ELSE IF c = "ML_ONLY" THEN (h \div 10000) * 7 + ((h % 10000) * 7) \div 10000
        ELSE h \div 1000

\* C15: with the default weights, for all scores of [0, 1], the fusion
\* returns the concordance of the first matching row and the hybrid score
\* h, min(1, h + 0.1) or h * 0.7 of that concordance, with its severity:
\* 0.7 / 0.7 gives 0.8, CRITICAL; 0.1 / 0.9 gives 0.294, LOW.
C15_FusionFormula ==
    (fused /\ p_in.weights = DefaultWeights) =>
       LET h == decimal_hybrid(p_in.rule_score, p_in.anomaly_score,
                               p_in.weights.rw, p_in.weights.mw)
       IN  /\ p_single.out.concordance = concordance_table(p_in.rule_score, p_in.anomaly_score)
           /\ p_single.out.hybrid_score = h
           /\ p_single.out.severity = fusion_classify_severity(h)

\* C15, but for the value of the hybrid score when it is computed in
\* doubles: the concordance is that of the first matching row, and the
\* hybrid score is within 10^-6 of the decimal value, never above it
C15_FusionFormula_Doubles ==
    (fused /\ p_in.weights = DefaultWeights) =>
       LET h == decimal_hybrid(p_in.rule_score, p_in.anomaly_score,
                               p_in.weights.rw, p_in.weights.mw)
       IN  /\ p_single.out.concordance = concordance_table(p_in.rule_score, p_in.anomaly_score)
           /\ p_single.out.hybrid_score \in {h - 1, h}
           /\ p_single.out.severity = fusion_classify_severity(p_single.out.hybrid_score)


\* C16: the hybrid score the fusion returns lies in [0, 1] for all scores
\* and all weights, also when the weights sum to more than 1, when one is
\* negative, and after the AGREE_HIGH bonus.
C16_HybridScoreInUnitInterval ==
    fused => (p_single.out.hybrid_score >= 0 /\ p_single.out.hybrid_score <= One)

\* weights 0.9 + 0.8, rule score 1.0 and anomaly score 0.29: RULE_ONLY, the
\* weighted sum 1.132 is returned as 1.0
C16_Witness ==
    /\ fused
    /\ p_in.weights.rw + p_in.weights.mw > 1000
    /\ p_in.weights.rw * p_in.rule_score + p_in.weights.mw * p_in.anomaly_score > 1000 * One
    /\ p_single.out.concordance = "RULE_ONLY"
    /\ p_single.out.hybrid_score = One


\* the lower bound of each severity label
severity_lower_bound ==
    [LOW |-> 0, MEDIUM |-> 300000, HIGH |-> 600000, CRITICAL |-> 800000]

\* label is the highest label whose lower bound the score reaches
is_severity_of(label, score) ==
    /\ score >= severity_lower_bound[label] \/ label = "LOW"
    /\ \A other \in SeqRange(SEVERITY_LEVELS) :
          severity_index(other) > severity_index(label) => score < severity_lower_bound[other]

\* the scores the classifiers are compared on: the grid of [0, 1] and the
\* scores next to each lower bound
SeverityScores ==
    AnomalyGrid \cup { b + d : b \in {300000, 600000, 800000}, d \in {0 - 1, 0, 1} }

\* C17: the severity of a score is CRITICAL from 0.8, HIGH from 0.6,
\* MEDIUM from 0.3 (bounds included), LOW below; a higher score never has
\* a lower severity; the rule engine's and the fusion's classify_severity
\* return the same label for every score.
C17_SeverityClassification ==
    fused =>
       LET score == p_single.out.hybrid_score
           severity == p_single.out.severity
       IN  /\ is_severity_of(severity, score)
           /\ rule_classify_severity(score) = severity
           /\ \A s \in SeverityScores :
                 /\ is_severity_of(fusion_classify_severity(s), s)
                 /\ rule_classify_severity(s) = fusion_classify_severity(s)
                 /\ s <= score =>
                       severity_index(fusion_classify_severity(s)) <= severity_index(severity)
                 /\ s >= score =>
                       severity_index(fusion_classify_severity(s)) >= severity_index(severity)

\* rule score 1.0 and anomaly score 0.5 fuse to exactly 0.8, CRITICAL
C17_Witness ==
    /\ fused
    /\ p_in.weights = DefaultWeights
    /\ p_single.out.hybrid_score = 800000
    /\ p_single.out.severity = "CRITICAL"
    /\ rule_classify_severity(p_single.out.hybrid_score) = "CRITICAL"


\* LOW < MEDIUM < HIGH < CRITICAL
severity_rank == [LOW |-> 1, MEDIUM |-> 2, HIGH |-> 3, CRITICAL |-> 4]

\* C18: should_alert is true exactly when the fused severity ranks at or
\* above alert_threshold, for each of the 16 pairs of severity and
\* threshold; for a fixed threshold, every severity above one that alerts
\* alerts too.
C18_ShouldAlertIffAtOrAbove ==
    fused =>
       LET severity == p_single.out.severity
           threshold == p_in.alert_threshold
       IN  /\ p_single.out.should_alert <=> severity_rank[severity] >= severity_rank[threshold]
           /\ p_single.out.should_alert =>
                 \A higher \in DOMAIN severity_rank :
                    severity_rank[higher] > severity_rank[severity] =>
                       severity_meets_threshold(higher, threshold)

\* a HIGH severity under the threshold HIGH alerts; under CRITICAL it does
\* not (the rounding case of C15)
C18_Witness ==
    /\ fused
    /\ p_single.out.severity = "HIGH"
    /\ p_in.alert_threshold = "HIGH"
    /\ p_single.out.should_alert


---------------------------------------------------------------------------
(* Events with invalid fields (SpecPipe)                                   *)

timestamp_parses(e) == TsInstant(e.timestamp) # Unparseable

has_coordinates(e) == IsNumber(e.latitude) /\ IsNumber(e.longitude)

\* the sum of the distances of the consecutive pairs, from pair i on, in
\* which both events have coordinates
RECURSIVE pairs_distance(_, _)
pairs_distance(s, i) ==
    IF i > Len(s) THEN 0
    ELSE (IF has_coordinates(s[i - 1]) /\ has_coordinates(s[i])
          THEN MmPerMilliDeg * Abs(s[i].latitude - s[i - 1].latitude)
          ELSE 0) + pairs_distance(s, i + 1)

\* the aggregated row alone does not make Enrich fail
row_enriches == ~enrich_features(p_in.row, <<>>, default_window_seconds).raised

\* what the claim asks of the analysis of the window in p_in
events_skipped_one_by_one ==
    /\ ~p_single.out.raised
    /\ p_single.out.core.features["distance_traveled"] =
          pairs_distance(SortedPrefix(p_in.events, Len(p_in.events)), 2)
    /\ "R3" \in SeqRange(p_single.out.core.rule_output.triggered_rules)
          <=> has_rapid_transition(SelectSeq(p_in.events, timestamp_parses), 10).value

\* C19: an event with an invalid field (latitude or longitude absent, null,
\* not a number or not finite; timestamp absent, null or unparseable) never
\* makes Enrich or the rule evaluation fail for the window: the segments of
\* that event alone are left out of distance_traveled, and the other events
\* still take part in R3.
C19_InvalidEventSkipped ==
    (p_pc = "done" /\ row_enriches) => events_skipped_one_by_one

\* C19 for the events none of which has a null timestamp or a non-finite
\* coordinate
C19_InvalidEventSkipped_NoNullNoInf ==
    (/\ p_pc = "done"
     /\ row_enriches
     /\ \A i \in 1..Len(p_in.events) :
           /\ p_in.events[i].timestamp # TsNone
           /\ p_in.events[i].latitude # NonFinite) => events_skipped_one_by_one

\* a string as latitude between two valid events: that event's two segments
\* are skipped, Enrich returns and R3 triggers
C19_Witness_NoNullNoInf ==
    /\ analysed
    /\ Len(p_in.events) = 3
    /\ p_in.events[2].latitude = NonNumeric
    /\ p_in.events[2].timestamp = "garbage"
    /\ p_single.out.core.features["distance_traveled"] = MmPerMilliDeg
    /\ "R3" \in SeqRange(p_single.out.core.rule_output.triggered_rules)


---------------------------------------------------------------------------
(* The feature vector of Enrich (SpecPipe)                                 *)

\* the mapping Enrich returned has exactly the 12 canonical names as keys,
\* an aggregated feature that is absent or null in the row is 0.0, and a
\* second call on the same row and events returns the same vector
canonical_vector(features) ==
    /\ DOMAIN features = SeqRange(FEATURE_COLUMNS)
    /\ Cardinality(DOMAIN features) = 12
    /\ \A i \in 1..Len(FEATURE_COLUMNS) :
          LET col == FEATURE_COLUMNS[i]
          IN  (/\ col \notin {"distance_traveled", "speed_estimate"}
               /\ Get(p_in.row, col, Absent) \in {Absent, Null}) => features[col] = 0
    /\ LET again == enrich_features(p_in.row, p_in.events, default_window_seconds)
       IN  ~again.raised /\ again.features = features

\* C20: for every aggregated row and event list, Enrich returns a mapping
\* whose keys are exactly the 12 canonical feature names, in which every
\* aggregated feature absent or null in the row is 0.0, and which a second
\* call on the same, unmodified inputs returns again.
C20_EnrichCanonicalVector ==
    p_pc = "done" =>
       (~p_single.out.raised /\ canonical_vector(p_single.out.core.features))

\* C20 for the calls of Enrich that return
C20_EnrichCanonicalVector_Returned ==
    analysed => canonical_vector(p_single.out.core.features)

\* a row with a null danger_ratio and no event_count: both are 0.0 in the
\* vector, next to a distance of 1 milli-degree of latitude
C20_Witness_Returned ==
    /\ analysed
    /\ Get(p_in.row, "danger_ratio", Absent) = Null
    /\ "event_count" \notin DOMAIN p_in.row
    /\ p_single.out.core.features["danger_ratio"] = 0
    /\ p_single.out.core.features["event_count"] = 0
    /\ p_single.out.core.features["distance_traveled"] = MmPerMilliDeg


---------------------------------------------------------------------------
(* Batch feature engineering (training path):                              *)
(* engine/feature_engineer.py, build_feature_dataframe, _aggregate_window  *)

\* pd.to_datetime(events_df["timestamp"], utc=True), in milliseconds after
\* 12:00:00Z
to_datetime(ts) ==
    CASE ts = "2026-01-01T12:00:00Z" -> 0
      [] ts = "2026-01-01T12:00:10Z" -> 10000
      [] ts = "2026-01-01T12:00:30Z" -> 30000
      [] ts = "2026-01-01T12:01:00Z" -> 60000
      [] ts = "2026-01-01T12:02:00Z" -> 120000

\* stride_ns = np.timedelta64(30, "s"), in milliseconds
stride_ms == 30000

\* the divisor of speed_estimate in _aggregate_window
aggregate_window_seconds == 120

\* the rows of a set of events in ascending order of timestamp
RECURSIVE sort_values(_)
sort_values(S) ==
    IF S = {} THEN <<>>
    ELSE LET first == CHOOSE e \in S :
                         \A f \in S : to_datetime(e.timestamp) <= to_datetime(f.timestamp)
         IN  <<first>> \o sort_values(S \ {first})

\* the tourist ids in the order groupby yields them
group_keys == <<"t1", "t2">>

\* events_df.groupby("tourist_id") after sort_values(["tourist_id",
\* "timestamp"]): one sequence of events per tourist id present
RECURSIVE groupby(_, _)
groupby(S, k) ==
    IF k > Len(group_keys) THEN <<>>
    ELSE LET group == { e \in S : e.tourist_id = group_keys[k] }
         IN  (IF group = {} THEN <<>> ELSE << sort_values(group) >>) \o groupby(S, k + 1)

\* a window closed at both ends
in_window_closed(e, current, window_seconds) ==
    /\ to_datetime(e.timestamp) >= current
    /\ to_datetime(e.timestamp) <= current + window_seconds * 1000

\* mask = (ts_array >= current) & (ts_array < window_end)
in_window(e, current, window_seconds) ==
    /\ to_datetime(e.timestamp) >= current
    /\ to_datetime(e.timestamp) < current + window_seconds * 1000

\* group.loc[(ts_array >= current) & (ts_array < window_end)]
window_of(group, current, window_seconds) ==
    LET inside(e) == in_window(e, current, window_seconds)
    IN  SelectSeq(group, inside)

RECURSIVE sum_of(_, _)
sum_of(q, field) ==
    IF q = <<>> THEN 0 ELSE q[1][field] + sum_of(Tail(q), field)

count_in(q, field, values) ==
    Cardinality({ i \in 1..Len(q) : q[i][field] \in values })

\* the distance loop of _aggregate_window from pair i on: ValueError and
\* TypeError skip the pair
RECURSIVE window_distance(_, _)
window_distance(w, i) ==
    IF i > Len(w) THEN 0
    ELSE LET h == haversine_meters(w[i - 1].latitude, w[i - 1].longitude,
                                   w[i].latitude, w[i].longitude)
         IN  (IF h.raised = "" THEN h.value ELSE 0) + window_distance(w, i + 1)

\* the largest r in lo..hi with r * r <= v
RECURSIVE isqrt(_, _, _)
isqrt(v, lo, hi) ==
    IF lo >= hi THEN lo
    ELSE LET mid == (lo + hi + 1) \div 2
         IN  IF mid * mid <= v THEN isqrt(v, mid, hi) ELSE isqrt(v, lo, mid - 1)

\* float(series.std() or 0): the sample standard deviation, 0 for a single
\* value; in 0.001 of the unit of the values
std_or_zero(w, field) ==
    LET n == Len(w)
        total == sum_of(w, field)
        squares == sum_of([i \in 1..n |-> [x |-> (n * w[i][field] - total) * (n * w[i][field] - total)]], "x")
    IN  IF n < 2 THEN 0
        ELSE isqrt((squares * 10000) \div (n * n * (n - 1)), 0, 30000) * 10


RECURSIVE max_of(_, _)
max_of(q, field) ==
    IF Len(q) = 1 THEN q[1][field] ELSE Max(q[1][field], max_of(Tail(q), field))

\* _aggregate_window(window_df) for a window of n >= 1 events, with
\* agg["tourist_id"] = tourist_id; ratios and averages in 10^-6, the
\* distance in mm, speed_estimate in micrometres per second
aggregate_window(w, tourist_id) ==
    LET n == Len(w)
        distance == window_distance(w, 2)
    IN  [tourist_id |-> tourist_id,
         event_count |-> n,
         unique_zones |-> Cardinality({ w[i].zone_state : i \in 1..n }),
         danger_ratio |-> (count_in(w, "zone_state", {"IN_DANGER", "NEAR_DANGER"}) * One) \div n,
         caution_ratio |-> (count_in(w, "zone_state", {"IN_CAUTION", "NEAR_CAUTION"}) * One) \div n,
         panic_count |-> count_in(w, "event_type", {"PANIC"}),
         zone_transitions |-> count_in(w, "event_type", {"ZONE_ENTER", "ZONE_EXIT"}),
         max_risk_timer |-> max_of(w, "risk_timer_value"),
         avg_risk_timer |-> (sum_of(w, "risk_timer_value") * 1000) \div n,
         lat_std |-> std_or_zero(w, "latitude"),
         lng_std |-> std_or_zero(w, "longitude"),
         distance_traveled |-> distance,
         speed_estimate |-> (distance * 1000) \div aggregate_window_seconds]

\* the state of the loops of build_feature_dataframe when the group at
\* index g is entered: current = ts_array[0]
enter_group(groups, g, emitted) ==
    [present |-> TRUE, groups |-> groups, g |-> g, rows |-> emitted,
     current |-> IF g <= Len(groups) THEN to_datetime(groups[g][1].timestamp) ELSE 0]

\* end = ts_array[-1]
group_end(group) == to_datetime(group[Len(group)].timestamp)

\* one pass of the body of `while current <= end`
window_step(loop, window_seconds) ==
    LET group == loop.groups[loop.g]
        window_df == window_of(group, loop.current, window_seconds)
    IN  [loop EXCEPT
           !.rows = IF Len(window_df) >= 3
                    THEN Append(@, aggregate_window(window_df, group[1].tourist_id))
                    ELSE @,
           !.current = @ + stride_ms]


---------------------------------------------------------------------------
(* The two feature paths as functions of their inputs: enrich_features     *)
(* with a window_seconds argument, then build_feature_dataframe, its       *)
(* loops taken one pass at a time                                          *)

\* events of one set of training data
MaxTrainEvents == 6

\* per timestamp: zone_state, event_type, risk_timer_value, latitude
TrainEventTable ==
    << <<"2026-01-01T12:00:00Z", "SAFE", "MOVE", 0, 12970>>,
       <<"2026-01-01T12:00:10Z", "IN_CAUTION", "MOVE", 5, 12971>>,
       <<"2026-01-01T12:00:30Z", "IN_DANGER", "ZONE_ENTER", 40, 12973>>,
       <<"2026-01-01T12:01:00Z", "IN_DANGER", "PANIC", 70, 12973>>,
       <<"2026-01-01T12:02:00Z", "SAFE", "ZONE_EXIT", 0, 12976>> >>

TrainEventSpace ==
    { [tourist_id |-> t, timestamp |-> TrainEventTable[i][1],
       zone_state |-> TrainEventTable[i][2], event_type |-> TrainEventTable[i][3],
       risk_timer_value |-> TrainEventTable[i][4],
       latitude |-> TrainEventTable[i][5], longitude |-> 77590] :
        t \in SeqRange(group_keys), i \in 1..Len(TrainEventTable) }

\* window_seconds arguments: negative, zero, half the default, the default
\* and twice the default
WindowSeconds == {0 - 60, 0, 60, 120, 240}

TrainInputs ==
    { [present |-> TRUE,
       row |-> WithId([max_risk_timer |-> 0, zone_transitions |-> 3]),
       raw_events |-> ev, events |-> S, window_seconds |-> w] :
        ev \in DriverEventLists,
        S \in { T \in SUBSET TrainEventSpace : Cardinality(T) <= MaxTrainEvents },
        w \in WindowSeconds }

InitTrain ==
    /\ file = [kind |-> "missing"]
    /\ det = Unloaded
    /\ ld_pc = 0
    /\ ld_bundle = NoBundle
    /\ ld_pre = det
    /\ ld_ret = "none"
    /\ ever_loaded = FALSE
    /\ rt_pc = "idle"
    /\ CycleIdle
    /\ life = "running"
    /\ p_in \in TrainInputs
    /\ p_pc = "in"
    /\ p_rules = NoInput
    /\ p_single = NoInput

\* features = enrich_features(agg_row, raw_events, window_seconds)
TrainEnrich ==
    /\ p_pc = "in"
    /\ p_rules' = [present |-> TRUE,
                   out |-> enrich_features(p_in.row, p_in.raw_events, p_in.window_seconds)]
    /\ p_pc' = "enriched"
    /\ UNCHANGED <<p_in, p_single>>
    /\ UNCHANGED scorer_vars
    /\ UNCHANGED cycle_vars
    /\ UNCHANGED life

\* build_feature_dataframe(events_df, window_seconds) up to the first group;
\* an empty frame returns at once
BuildBegin ==
    /\ p_pc = "enriched"
    /\ p_single' = enter_group(groupby(p_in.events, 1), 1, <<>>)
    /\ p_pc' = IF p_in.events = {} THEN "matrix" ELSE "loop"
    /\ UNCHANGED <<p_in, p_rules>>
    /\ UNCHANGED scorer_vars
    /\ UNCHANGED cycle_vars
    /\ UNCHANGED life

\* while current <= end: one window
WindowStep ==
    /\ p_pc = "loop"
    /\ p_single.g <= Len(p_single.groups)
    /\ p_single.current <= group_end(p_single.groups[p_single.g])
    /\ p_single' = window_step(p_single, p_in.window_seconds)
    /\ UNCHANGED <<p_pc, p_in, p_rules>>
    /\ UNCHANGED scorer_vars
    /\ UNCHANGED cycle_vars
    /\ UNCHANGED life

\* current > end: the next tourist of the groupby
NextGroup ==
    /\ p_pc = "loop"
    /\ p_single.g <= Len(p_single.groups)
    /\ p_single.current > group_end(p_single.groups[p_single.g])
    /\ p_single' = enter_group(p_single.groups, p_single.g + 1, p_single.rows)
    /\ UNCHANGED <<p_pc, p_in, p_rules>>
    /\ UNCHANGED scorer_vars
    /\ UNCHANGED cycle_vars
    /\ UNCHANGED life

\* return pd.DataFrame(rows)[["tourist_id"] + FEATURE_COLUMNS]
BuildReturn ==
    /\ p_pc = "loop"
    /\ p_single.g > Len(p_single.groups)
    /\ p_pc' = "matrix"
    /\ UNCHANGED <<p_in, p_rules, p_single>>
    /\ UNCHANGED scorer_vars
    /\ UNCHANGED cycle_vars
    /\ UNCHANGED life

NextTrain ==
    \/ TrainEnrich
    \/ BuildBegin
    \/ WindowStep
    \/ NextGroup
    \/ BuildReturn

SpecTrain == InitTrain /\ [][NextTrain]_vars

\* build_feature_dataframe has returned
matrix_built == p_pc = "matrix"


---------------------------------------------------------------------------
(* Properties of the feature paths (SpecTrain)                             *)

enriched == p_pc # "in" /\ ~p_rules.out.raised

\* speed_estimate = distance_traveled / window_seconds, in micrometres per
\* second from millimetres
speed_over(distance, window_seconds) == (distance * 1000) \div window_seconds

enrich_speed_is_distance_over_window ==
    enriched =>
       LET f == p_rules.out.features
       IN  f["speed_estimate"] = IF p_in.window_seconds > 0
                                 THEN speed_over(f["distance_traveled"], p_in.window_seconds)
                                 ELSE 0

\* C21: in the vector of Enrich and in every row of BuildTrainingMatrix,
\* speed_estimate is distance_traveled divided by the window_seconds passed
\* to that operation when window_seconds > 0, whatever its value, and
\* Enrich gives speed_estimate = 0 when window_seconds <= 0.
C21_SpeedIsDistanceOverWindow ==
    /\ enrich_speed_is_distance_over_window
    /\ (matrix_built /\ p_in.window_seconds > 0) =>
          \A i \in 1..Len(p_single.rows) :
             p_single.rows[i].speed_estimate =
                speed_over(p_single.rows[i].distance_traveled, p_in.window_seconds)

\* C21 for Enrich with any window_seconds, and for BuildTrainingMatrix
\* with window_seconds = 120
C21_SpeedIsDistanceOverWindow_Default ==
    /\ enrich_speed_is_distance_over_window
    /\ (matrix_built /\ p_in.window_seconds = 120) =>
          \A i \in 1..Len(p_single.rows) :
             p_single.rows[i].speed_estimate =
                speed_over(p_single.rows[i].distance_traveled, p_in.window_seconds)

\* Enrich with window_seconds = 60 on a distance of 1 milli-degree, and a
\* training row of 3 milli-degrees with window_seconds = 120
C21_Witness_Default ==
    /\ matrix_built
    /\ p_in.window_seconds = 120
    /\ p_rules.out.features["distance_traveled"] = MmPerMilliDeg
    /\ Len(p_single.rows) >= 1
    /\ p_single.rows[1].distance_traveled = 3 * MmPerMilliDeg
    /\ p_single.rows[1].speed_estimate = (3 * MmPerMilliDeg * 1000) \div 120


---------------------------------------------------------------------------
(* Properties of retraining (Spec)                                         *)

\* a step of _retrain_background's train(days=7): it returns or raises
train_step == rt_pc = "pending" /\ rt_pc' \in {"reload", "raised", "no_data"}

\* C22: a retraining run, also one that fails while it writes the new
\* bundle, leaves the model file either as it was or as the complete new
\* bundle, never partially written: a load of the file that would have
\* succeeded before the run still succeeds.
C22_RetrainKeepsFileWhole ==
    [][train_step =>
          /\ file' = file \/ file' = [kind |-> "bundle", data |-> BundleV1]
          /\ loadable(file) => loadable(file')]_vars


\* train(days=7) has raised ValueError for want of data, and
\* _retrain_background is in its except clause
no_training_data == rt_pc = "no_data"

\* C23: when retraining finds no training events or fewer than 10 feature
\* windows, the error stays within the retraining task: the model file is
\* not written, reload is not invoked, the scorer keeps its bundle, and
\* the task ends with the service as it was, its cycles free to start.
C23_NoDataConfinedToRetrain ==
    [][/\ (rt_pc = "pending" /\ no_training_data') =>
             (file' = file /\ det' = det /\ ld_pc' = 0 /\ ld_ret' = ld_ret
              /\ UNCHANGED cycle_vars)
       /\ no_training_data =>
             /\ rt_pc' \in {"no_data", "idle"}
             /\ det' = det /\ ld_pc' = 0 /\ ld_ret' \in {ld_ret, "none"}
             /\ (rt_pc' = "idle" /\ instances' < max_instances) => cycle_may_start']_vars

\* the retraining of a scorer that holds the v2 bundle has raised for want
\* of data: the scorer and the file still hold v2
C23_Witness ==
    /\ no_training_data
    /\ det = Published(BundleV2)
    /\ file = [kind |-> "bundle", data |-> BundleV2]


---------------------------------------------------------------------------
(* Event Store read failures in a cycle (SpecDriver)                       *)

\* the read of some tourist's raw events has failed in the running cycle
events_read_failed == \E i \in 1..Len(trace) : trace[i].read_failed

\* what a failed read of the aggregated rows leads to: the cycle returns,
\* with no row and no alert inserted
agg_failure_ends_cycle ==
    /\ cyc_pc = "agg_read_failed" => (rows = <<>> /\ stored = <<>>)
    /\ \A i \in 1..Len(trace) :
          (trace[i].read_failed /\ i = idx /\ cyc_pc = "fetched") => raw_events = <<>>

\* C24: a failed read of the Event Store never aborts a cycle: when the
\* read of the aggregated rows fails, the cycle ends without raising and
\* inserts no alert; when the read of one tourist's raw events fails, that
\* tourist is analysed with an empty event list and all the remaining
\* tourists are still analysed.
C24_ReadFailureNeverAborts ==
    /\ agg_failure_ends_cycle
    /\ events_read_failed =>
          /\ cyc_pc # "raised"
          /\ cycle_over =>
                \A i \in 1..Len(rows) : valid_tourist_id(rows[i]) => trace[i].analysed

\* C24 for the cycles that return: the tourist whose read failed and all
\* the others with a tourist_id have been analysed
C24_ReadFailureNeverAborts_Returned ==
    /\ agg_failure_ends_cycle
    /\ (events_read_failed /\ cyc_pc = "done") =>
          \A i \in 1..Len(rows) : valid_tourist_id(rows[i]) => trace[i].analysed

\* the step after a failed read of the aggregated rows returns from the
\* cycle; the step after a failed read of raw events analyses that tourist
C24_ReadFailureStep ==
    [][/\ cyc_pc = "agg_read_failed" =>
             (cyc_pc' \in {"agg_read_failed", "done"} /\ stored' = <<>>)
       /\ (cyc_pc = "loop" /\ cyc_pc' = "fetched" /\ trace'[idx].read_failed) =>
             (raw_events' = <<>> /\ idx' = idx)]_vars

\* a cycle of two tourists has returned: the read of the first one's events
\* failed, both were analysed
C24_Witness_Returned ==
    /\ cyc_pc = "done"
    /\ Len(rows) = 2
    /\ trace[1].read_failed /\ trace[1].analysed
    /\ ~trace[2].read_failed /\ trace[2].analysed


----------------------------------------------------------------------------
(* Properties of the shutdown (Spec)                                       *)

scheduler_stopped == life # "running"

work_in_flight == cycle_running \/ instances > 0 \/ rt_pc # "idle"

----------------------------------------------------------------------------
(* On-demand analysis: main.py, analyze_tourist (SpecOnDemand)             *)

\* a row of the tourist_events table
StoreEvent(tid, zone, type, ts, lat) ==
    [tourist_id |-> tid, zone_state |-> zone, event_type |-> type,
     timestamp |-> ts, latitude |-> lat, longitude |-> 77590]

\* get_recent_events(tourist_id, window_minutes: int = 2)
default_window_minutes == 2

\* timedelta(minutes=window_minutes), in ms
minutes(window_minutes) == window_minutes * 60000

\* .eq("tourist_id", tourist_id).gte("timestamp", since)
\* .order("timestamp", desc=False), since = now - window_minutes; the table
\* is held in timestamp order
get_recent_events(table, tourist_id, window_minutes, now) ==
    LET since == now - minutes(window_minutes)
        selected(e) == e.tourist_id = tourist_id /\ TsInstant(e.timestamp) >= since
    IN  SelectSeq(table, selected)

\* model.decision_function(X): a function of the feature vector, here of
\* whether the tourist moved
decision_function(estimator, features) ==
    IF features["distance_traveled"] > 0 THEN estimator.moving ELSE estimator.still

\* round(v, 6): every feature value of the model is a whole number of
\* units of 10^-6 or coarser, which rounding to six places leaves alone
round6(v) == v

\* next((r for r in agg_rows if r.get("tourist_id") == tourist_id), None)
rows_of(agg_rows, tourist_id) ==
    LET matches(r) == Get(r, "tourist_id", Null) = tourist_id
    IN  SelectSeq(agg_rows, matches)

\* the fields both paths report, rounded as both round them
reported(features, rule_output, fusion) ==
    [features |-> [k \in DOMAIN features |-> round6(features[k])],
     rule_score |-> round4(fusion.rule_score),
     anomaly_score |-> round4(fusion.anomaly_score),
     hybrid_score |-> round4(fusion.hybrid_score),
     severity |-> fusion.severity,
     triggered_rules |-> rule_output.triggered_rules,
     should_alert |-> fusion.should_alert]

\* POST /analyze/{tourist_id}: 404 without an aggregated row, 500 when
\* enrich_features raises, else the response body
analyze_tourist(store, tourist_id, d, estimator) ==
    LET agg == rows_of(store.agg_rows, tourist_id)
    IN  IF agg = <<>> THEN [status |-> 404]
        ELSE
        LET agg_row == agg[1]
            events == get_recent_events(store.table, tourist_id,
                                        default_window_minutes, store.now)
            e == enrich_features(agg_row, events, default_window_seconds)
        IN  IF e.raised THEN [status |-> 500]
            ELSE
            LET rule_output == evaluate_rules(e.features, events)
                ml_score == predict(d, e.features, decision_function(estimator, e.features))
                fusion == compute_hybrid_score(rule_output.rule_score, ml_score,
                              rule_weight, ml_weight, alert_severity_threshold)
            IN  [status |-> 200, events |-> events,
                 body |-> reported(e.features, rule_output, fusion)]

\* what one cycle of analyze_all_tourists computes for the tourist's row
\* with window_minutes=settings.feature_window_minutes
driver_analysis(store, tourist_id, window_minutes, d, estimator) ==
    LET agg == rows_of(store.agg_rows, tourist_id)
    IN  IF agg = <<>> THEN [status |-> 404]
        ELSE
        LET events == get_recent_events(store.table, tourist_id, window_minutes, store.now)
            e == enrich_features(agg[1], events, default_window_seconds)
        IN  IF e.raised THEN [status |-> 500]
            ELSE
            LET c == analysis_core(agg[1], events, d, decision_function(estimator, e.features))
            IN  [status |-> 200, events |-> events,
                 body |-> reported(c.features, c.rule_output, c.fusion)]


\* tourist_events in timestamp order
StoreEventList ==
    << StoreEvent("t1", "SAFE", "MOVE", "2026-01-01T12:00:00Z", 12970),
       StoreEvent("t1", "IN_DANGER", "ZONE_ENTER", "2026-01-01T12:00:08Z", 12971),
       StoreEvent("t2", "SAFE", "MOVE", "2026-01-01T12:00:08Z", 12970),
       StoreEvent("t1", "IN_DANGER", "MOVE", "2026-01-01T12:00:10Z", 12973) >>

StoreTables ==
    { LET held(e) == e \in chosen IN SelectSeq(StoreEventList, held) :
        chosen \in SUBSET { StoreEventList[i] : i \in 1..Len(StoreEventList) } }

\* the time of the request and of the cycle, in ms after 12:00:00Z:
\* 12:01:05, 12:02:05, 12:05:05
StoreNows == {65000, 125000, 305000}

\* settings.feature_window_minutes as configured
ConfiguredWindows == {1, 2, 5}

Estimators ==
    { [moving |-> 0 - 200, still |-> 0 - 200], [moving |-> 0 - 10000, still |-> 200] }

OnDemandInputs ==
    { [present |-> TRUE,
       store |-> [agg_rows |-> rs, table |-> tb, now |-> now],
       tourist_id |-> id, feature_window_minutes |-> w, d |-> d, estimator |-> est] :
        rs \in { << [tourist_id |-> "t1", event_count |-> 3, panic_count |-> 0] >>,
                 << [tourist_id |-> "t2", event_count |-> 3, panic_count |-> 1],
                    [tourist_id |-> "t1", event_count |-> 3, zone_transitions |-> 1] >>,
                 << [tourist_id |-> "t1", event_count |-> NonNumeric, panic_count |-> 1] >> },
        tb \in StoreTables, now \in StoreNows, id \in {"t1", "t2"},
        w \in ConfiguredWindows, d \in {Unloaded, Published(BundleV1)},
        est \in Estimators }

InitOnDemand ==
    /\ file = [kind |-> "missing"]
    /\ det = Unloaded
    /\ ld_pc = 0
    /\ ld_bundle = NoBundle
    /\ ld_pre = det
    /\ ld_ret = "none"
    /\ ever_loaded = FALSE
    /\ rt_pc = "idle"
    /\ CycleIdle
    /\ life = "running"
    /\ p_in \in OnDemandInputs
    /\ p_pc = "in"
    /\ p_rules = NoInput
    /\ p_single = NoInput

\* the cycle reaches the tourist's row
DriverAnalyzes ==
    /\ p_pc = "in"
    /\ p_rules' = [present |-> TRUE,
                   out |-> driver_analysis(p_in.store, p_in.tourist_id,
                               p_in.feature_window_minutes, p_in.d, p_in.estimator)]
    /\ p_pc' = "driver"
    /\ UNCHANGED <<p_in, p_single>>
    /\ UNCHANGED scorer_vars
    /\ UNCHANGED cycle_vars
    /\ UNCHANGED life

\* POST /analyze/{tourist_id} on the same store
AnalyzeTourist ==
    /\ p_pc = "driver"
    /\ p_single' = [present |-> TRUE,
                    out |-> analyze_tourist(p_in.store, p_in.tourist_id, p_in.d, p_in.estimator)]
    /\ p_pc' = "on_demand"
    /\ UNCHANGED <<p_in, p_rules>>
    /\ UNCHANGED scorer_vars
    /\ UNCHANGED cycle_vars
    /\ UNCHANGED life

NextOnDemand ==
    \/ DriverAnalyzes
    \/ AnalyzeTourist

SpecOnDemand == InitOnDemand /\ [][NextOnDemand]_vars

both_analysed == p_pc = "on_demand"

\* C26: on-demand analysis and the driver, on the same store, model and
\* configuration, whatever feature_window_minutes is configured, yield the
\* same features, scores, severity, triggered rules and should_alert for
\* the tourist
C26_OnDemandEqualsDriver ==
    both_analysed => p_single.out.status = p_rules.out.status
                     /\ (p_single.out.status = 200 => p_single.out.body = p_rules.out.body)

\* the same with the window left at its default of 2 minutes
C26_OnDemandEqualsDriver_Default ==
    both_analysed /\ p_in.feature_window_minutes = default_window_minutes
        => p_single.out = p_rules.out

\* with the default window both paths analysed the same two or more events
\* and triggered a rule
C26_Witness_Default ==
    /\ both_analysed
    /\ p_in.feature_window_minutes = default_window_minutes
    /\ p_single.out.status = 200
    /\ Len(p_single.out.events) >= 2
    /\ p_single.out.body.triggered_rules # <<>>


----------------------------------------------------------------------------
(* Properties of the training matrix (SpecTrain)                           *)

\* the stride of build_feature_dataframe, in seconds
strideSeconds == 30

events_of(t) == { e \in p_in.events : e.tourist_id = t }

first_timestamp(t) ==
    CHOOSE s \in { to_datetime(e.timestamp) : e \in events_of(t) } :
        \A e \in events_of(t) : s <= to_datetime(e.timestamp)

last_timestamp(t) ==
    CHOOSE s \in { to_datetime(e.timestamp) : e \in events_of(t) } :
        \A e \in events_of(t) : s >= to_datetime(e.timestamp)

\* the events of tourist t in [s, s + windowSeconds)
events_in_window(t, s) ==
    { e \in events_of(t) :
        /\ s <= to_datetime(e.timestamp)
        /\ to_datetime(e.timestamp) < s + p_in.window_seconds * 1000 }

\* the rows of the windows of tourist t from the k-th on, in order of k
RECURSIVE rows_from(_, _)
rows_from(t, k) ==
    LET s == first_timestamp(t) + k * strideSeconds * 1000
    IN  IF s > last_timestamp(t) THEN <<>>
        ELSE (IF Cardinality(events_in_window(t, s)) >= 3
              THEN << aggregate_window(sort_values(events_in_window(t, s)), t) >>
              ELSE <<>>) \o rows_from(t, k + 1)

RECURSIVE rows_of_tourists(_)
rows_of_tourists(i) ==
    IF i > Len(group_keys) THEN <<>>
    ELSE (IF events_of(group_keys[i]) = {} THEN <<>> ELSE rows_from(group_keys[i], 0))
         \o rows_of_tourists(i + 1)

\* the loops go forward: a pass moves to a later window of the same
\* tourist, to the next tourist, or out of the loop
loop_advances ==
    p_pc = "loop" =>
        \/ p_pc' = "matrix"
        \/ p_single'.g = p_single.g /\ p_single'.current > p_single.current
        \/ p_single'.g = p_single.g + 1

\* and stay in range: no window starts more than one stride after the last
\* timestamp of its tourist
loop_in_range ==
    p_pc = "loop" =>
        /\ p_single.g <= Len(p_single.groups) + 1
        /\ p_single.g <= Len(p_single.groups) =>
              p_single.current <= group_end(p_single.groups[p_single.g]) + strideSeconds * 1000

\* C27: build_feature_dataframe considers, for each tourist, exactly the
\* windows [s, s + windowSeconds) with s = first timestamp + k * stride
\* while s <= last timestamp; it emits one row for each such window holding
\* at least 3 events of that tourist, computed from those events alone,
\* and no other row; and its loops end
C27_TrainingMatrixWindows ==
    /\ [](matrix_built => p_single.rows = rows_of_tourists(1))
    /\ []loop_in_range
    /\ [][loop_advances]_vars

\* a matrix with rows of both tourists, and a window that was passed over
C27_Witness ==
    /\ matrix_built
    /\ \E i, j \in 1..Len(p_single.rows) :
          p_single.rows[i].tourist_id = "t1" /\ p_single.rows[j].tourist_id = "t2"
    /\ \E t \in {"t1", "t2"} :
          /\ first_timestamp(t) + strideSeconds * 1000 <= last_timestamp(t)
          /\ Cardinality(events_in_window(t, first_timestamp(t) + strideSeconds * 1000)) < 3


----------------------------------------------------------------------------
(* Further properties of the fusion (SpecFusion)                           *)

defaults_in_force ==
    p_in.weights = DefaultWeights /\ p_in.alert_threshold = alert_severity_threshold

\* C28: with the default weights 0.6 and 0.4 and the threshold MEDIUM, a
\* rule_score of 0 is never alerted, whatever the anomaly score: the
\* severity stays LOW
C28_NoAlertWithoutRules ==
    fused /\ defaults_in_force /\ p_in.rule_score = 0
        => ~p_single.out.should_alert /\ p_single.out.severity = "LOW"

\* the highest anomaly score with no rule triggered, dampened as ML_ONLY
C28_Witness ==
    /\ fused /\ defaults_in_force
    /\ p_in.rule_score = 0 /\ p_in.anomaly_score = One
    /\ p_single.out.concordance = "ML_ONLY"
    /\ p_single.out.hybrid_score > 0


----------------------------------------------------------------------------
(* Two fusions of one rule score (SpecMonotone)                            *)

\* scores are multiples of 1/MonoPoints
MonoPoints == 20

MonoGrid == { (k * One) \div MonoPoints : k \in 0..MonoPoints }

\* a rule score, two anomaly scores in ascending order, the default
\* weights or 0.9 and 0.8
MonotoneInputs ==
    { [present |-> TRUE, rule_score |-> r, low |-> a1, high |-> a2, weights |-> w,
       alert_threshold |-> alert_severity_threshold] :
        r \in MonoGrid, a1 \in MonoGrid, a2 \in MonoGrid,
        w \in {DefaultWeights, [rw |-> 900, mw |-> 800]} }

InitMonotone ==
    /\ file = [kind |-> "missing"]
    /\ det = Unloaded
    /\ ld_pc = 0
    /\ ld_bundle = NoBundle
    /\ ld_pre = det
    /\ ld_ret = "none"
    /\ ever_loaded = FALSE
    /\ rt_pc = "idle"
    /\ CycleIdle
    /\ life = "running"
    /\ p_in \in { i \in MonotoneInputs : i.low <= i.high }
    /\ p_pc = "pair"
    /\ p_rules = NoInput
    /\ p_single = NoInput

\* compute_hybrid_score with the lower anomaly score
FuseLow ==
    /\ p_pc = "pair"
    /\ p_rules' = [present |-> TRUE,
                   out |-> compute_hybrid_score(p_in.rule_score, p_in.low,
                               p_in.weights.rw, p_in.weights.mw, p_in.alert_threshold)]
    /\ p_pc' = "low"
    /\ UNCHANGED <<p_in, p_single>>
    /\ UNCHANGED scorer_vars
    /\ UNCHANGED cycle_vars
    /\ UNCHANGED life

\* compute_hybrid_score with the higher one
FuseHigh ==
    /\ p_pc = "low"
    /\ p_single' = [present |-> TRUE,
                    out |-> compute_hybrid_score(p_in.rule_score, p_in.high,
                                p_in.weights.rw, p_in.weights.mw, p_in.alert_threshold)]
    /\ p_pc' = "both"
    /\ UNCHANGED <<p_in, p_rules>>
    /\ UNCHANGED scorer_vars
    /\ UNCHANGED cycle_vars
    /\ UNCHANGED life

NextMonotone ==
    \/ FuseLow
    \/ FuseHigh

SpecMonotone == InitMonotone /\ [][NextMonotone]_vars

both_fused == p_pc = "both"

\* the higher anomaly score gives no lower hybrid score and severity and
\* does not take an alert back
not_lowered ==
    /\ p_rules.out.hybrid_score <= p_single.out.hybrid_score
    /\ severity_rank[p_rules.out.severity] <= severity_rank[p_single.out.severity]
    /\ p_rules.out.should_alert => p_single.out.should_alert

\* the rule score is below 0.2 and the anomaly score is raised from 0.7 or
\* less to more than 0.7: the concordance becomes ML_ONLY
enters_ml_only ==
    p_in.rule_score < 200000 /\ p_in.low <= 700000 /\ p_in.high > 700000

\* C29 as stated: for a fixed rule score and fixed weights the fusion is
\* monotone in the anomaly score
C29_MonotoneInAnomaly == both_fused => not_lowered

\* C29: for a fixed rule score and fixed weights, raising the anomaly
\* score lowers neither the hybrid score nor the severity nor takes an
\* alert back, unless the raise takes the pair into ML_ONLY (rule score
\* below 0.2, anomaly score from at most 0.7 to above it), where the
\* hybrid score is multiplied by 0.7
C29_MonotoneOutsideMlOnly == both_fused /\ ~enters_ml_only => not_lowered

\* a raise inside ML_ONLY, and one into AGREE_HIGH
C29_Witness ==
    /\ both_fused
    /\ p_in.low < p_in.high
    /\ p_rules.out.concordance \in {"ML_ONLY", "CONFLICT"}
    /\ p_single.out.concordance \in {"ML_ONLY", "AGREE_HIGH"}
    /\ p_rules.out.severity # p_single.out.severity


----------------------------------------------------------------------------
(* The rules on an event list and on a permutation of it (SpecOrder)       *)

\* the lists holding the events of `events` in another order
permutations(events) ==
    LET n == Len(events)
    IN  { [i \in 1..n |-> events[f[i]]] :
            f \in { g \in [1..n -> 1..n] : \A i, j \in 1..n : g[i] = g[j] => i = j } }

\* SAFE and IN_DANGER events at one instant written in two forms, 8 s and
\* 10.001 s later, and with a timestamp that does not parse
OrderEventLists ==
    SeqsUpTo({ e \in EventSpace :
                 /\ e.zone_state \in {"SAFE", "IN_DANGER"}
                 /\ e.event_type \in {"MOVE", "ZONE_ENTER"}
                 /\ e.timestamp \in {"garbage", "2026-01-01T12:00:00+00:00",
                                     "2026-01-01T12:00:00Z", "2026-01-01T12:00:08Z",
                                     "2026-01-01T12:00:10.001Z"} }, MaxEvents)

\* a feature dict, an event list and one of its permutations
OrderInputs ==
    UNION { { [present |-> TRUE, row |-> r, events |-> ev, permuted |-> pm] :
                r \in { WithId([max_risk_timer |-> 0, zone_transitions |-> 3]),
                        WithId([max_risk_timer |-> 30, latest_zone_state |-> "IN_DANGER"]) },
                pm \in permutations(ev) } :
            ev \in OrderEventLists }

InitOrder ==
    /\ file = [kind |-> "missing"]
    /\ det = Unloaded
    /\ ld_pc = 0
    /\ ld_bundle = NoBundle
    /\ ld_pre = det
    /\ ld_ret = "none"
    /\ ever_loaded = FALSE
    /\ rt_pc = "idle"
    /\ CycleIdle
    /\ life = "running"
    /\ p_in \in OrderInputs
    /\ p_pc = "lists"
    /\ p_rules = NoInput
    /\ p_single = NoInput

\* evaluate_rules(features, raw_events)
EvaluateGiven ==
    /\ p_pc = "lists"
    /\ p_rules' = [present |-> TRUE, out |-> evaluate_rules(p_in.row, p_in.events)]
    /\ p_pc' = "given"
    /\ UNCHANGED <<p_in, p_single>>
    /\ UNCHANGED scorer_vars
    /\ UNCHANGED cycle_vars
    /\ UNCHANGED life

\* evaluate_rules on the same events in the other order
EvaluatePermuted ==
    /\ p_pc = "given"
    /\ p_single' = [present |-> TRUE, out |-> evaluate_rules(p_in.row, p_in.permuted)]
    /\ p_pc' = "both_orders"
    /\ UNCHANGED <<p_in, p_rules>>
    /\ UNCHANGED scorer_vars
    /\ UNCHANGED cycle_vars
    /\ UNCHANGED life

NextOrder ==
    \/ EvaluateGiven
    \/ EvaluatePermuted

SpecOrder == InitOrder /\ [][NextOrder]_vars

both_orders == p_pc = "both_orders"

\* no two events of the list carry the same timestamp string
distinct_timestamps(events) ==
    \A i, j \in 1..Len(events) : events[i].timestamp = events[j].timestamp => i = j

\* C30: evaluate_rules returns the same result for every permutation of an
\* event list, lists with a SAFE and an IN_DANGER event at one timestamp
\* and with timestamps in different ISO-8601 forms included
C30_OrderIndependent ==
    both_orders => p_single.out = p_rules.out

\* the same for the lists whose timestamp strings are pairwise different
C30_OrderIndependent_Distinct ==
    both_orders /\ distinct_timestamps(p_in.events) => p_single.out = p_rules.out

\* two orders of a SAFE and an IN_DANGER event whose timestamps differ in
\* form, with R3 triggered
C30_Witness_Distinct ==
    /\ both_orders
    /\ distinct_timestamps(p_in.events)
    /\ p_in.permuted # p_in.events
    /\ "R3" \in SeqRange(p_rules.out.triggered_rules)

=============================================================================
